---- MODULE Spec2Model ----
(***************************************************************************)
(* Glukoscillator: the polyphonic voice-pool engine (GlucoseSynth), the    *)
(* note input handlers in front of it, and the reorderable effects chain   *)
(* (EffectsChain).                                                         *)
(***************************************************************************)
EXTENDS Integers, Sequences, FiniteSets, TLC

(***************************************************************************)
(* Program constants                                                       *)
(***************************************************************************)
MAX_VOICES == 6

NUM_OSCILLATORS == 3

\* the scheduling offset of the triggers, in milliseconds
AUDIO_LOOKAHEAD == 10

(***************************************************************************)
(* Bounds                                                                  *)
(***************************************************************************)
\* number of distinct note identifiers the callers use
MaxNotes == 2

\* how many calls that change a wavetable or a level, or release voices, one run makes
MaxOps == 3

\* the same budget for the runs that exhaust a voice pool
PoolOps == 2

\* wavetables have 2^LogTableSize samples in the runs of the wavetable
\* functions (the program's WAVETABLE_SIZE is 2^11)
LogTableSize == 3

\* the number of partials computed for a generated wavetable in these runs
\* (the program asks for 64 of a wavetable of 2048 samples)
LoadPartials == 3

\* the longest series of equal or of freely chosen readings
MaxSeries == 2

\* the audio time, in milliseconds, up to which the clock is followed
MaxTime == 25

(***************************************************************************)
(* Generic helpers                                                         *)
(***************************************************************************)
Range(s) == {s[i] : i \in 1..Len(s)}

RECURSIVE SeqFilterIn(_, _)
\* the elements of s that are in the set S, in the order of s
SeqFilterIn(s, S) ==
  IF s = <<>> THEN <<>>
  ELSE IF Head(s) \in S THEN <<Head(s)>> \o SeqFilterIn(Tail(s), S)
       ELSE SeqFilterIn(Tail(s), S)

\* Set.prototype.add on an insertion-ordered Set kept as a sequence
SetAdd(s, v) == IF v \in Range(s) THEN s ELSE Append(s, v)

\* Set.prototype.delete on an insertion-ordered Set kept as a sequence
SetDelete(s, v) == SeqFilterIn(s, Range(s) \ {v})

\* the null wavetable of a layer that has none
Null == [name |-> "null", length |-> 0]

(***************************************************************************)
(* State                                                                   *)
(***************************************************************************)
VARIABLES
  isInitialized,    \* GlucoseSynth.isInitialized
  startPending,     \* a start() call is suspended at `await Tone.start()`
  oscWavetable,     \* oscillators[i].wavetable (Null or a wavetable)
  oscPartials,      \* oscillators[i].partials
  oscDayLabel,      \* oscillators[i].dayLabel
  oscLevel,         \* oscillators[i].level, in percent
  availableVoices,  \* oscillators[i].availableVoices, in insertion order
  activeVoices,     \* the Map note -> voices, in insertion order
  synthOsc,         \* per voice: oscillator.type and oscillator.partials
  voiceEnv,         \* per voice: the last envelope trigger (none, attack, release)
  voiceTimes,       \* per voice: the times its last attack and the release that
                    \* followed it were scheduled at, in milliseconds
  now,              \* Tone.now(), in milliseconds
  twiddleSize,      \* wavetable.ts: twiddleSize
  twiddleFactors,   \* wavetable.ts: twiddleFactorsReal and twiddleFactorsImag, or Null
  lastWave,         \* history: the last call of a function of wavetable.ts
  activeKnob,       \* per panel: activeKnob, the knob that is dragged, or NoKnob
  startY,           \* per panel: startY
  startValue,       \* per panel: startValue
  knobValue,        \* per knob: knob.dataset.value
  pendingUpdate,    \* per panel: pendingUpdate / pendingKnobUpdate, or NoUpdate
  updateScheduled,  \* per panel: updateScheduled / knobUpdateScheduled
  frameCallbacks,   \* the callbacks given to requestAnimationFrame, in order
  committed,        \* per knob: the value its parameter was last set to
  frameCommits,     \* history: the commits since the last animation frame began
  moved,            \* history: per panel, the knobs and values of the pointer
                    \* moves it handled since the last animation frame
  frames,           \* the number of animation frames so far
  presses,          \* the number of presses of the mouse button on a knob so far
  keysDown,         \* the keys of the computer keyboard that are held down
  lastKey,          \* history: the last key that went down or up
  draggedEffect,    \* EffectsPanel.draggedEffect
  dropTargetIndex,  \* EffectsPanel.dropTargetIndex
  modules,          \* the .effect-module elements of the rack, in document order
  dragPhase,        \* where the browser is in a drag-and-drop operation
  midiAccess,       \* whether MIDIHandler.midiAccess is set, with its onstatechange
  midiStarting,     \* the calls of MIDIHandler.start that await requestMIDIAccess
  midiStarts,       \* the number of calls of MIDIHandler.start so far
  midiInputs,       \* the ids of the browser's MIDIInputMap, in insertion order
  portState,        \* the state of the port of each device
  onmidimessage,    \* the devices whose port has handleMIDIMessage installed
  activeInput,      \* MIDIHandler.activeInput, by its id
  selectedDeviceId, \* MIDIHandler.selectedDeviceId
  lastMidi,         \* history: the last event of the MIDI devices
  noteOnMsg,        \* a note-on message: its note number and the name made of it
  noteOffMsg,       \* the note-off message after it, in the same way
  userVolume,       \* GlucoseSynth.userVolume, in percent
  masterVolume,     \* masterVolume.volume.value, in hundredths of a dB
  lastCall,         \* history: the last call that reached the voice pools (a noteOn
                    \* past its two guards, a noteOff, an allNotesOff) or the
                    \* last setWavetable that was followed to its end
  trigOsc,          \* history: per voice, its oscillator when it was last triggered
  ops,              \* number of configuration changes and releasing calls so far
  pressedKeys,      \* KeyboardHandler.pressedKeys, in insertion order
  kbEnabled,        \* KeyboardHandler.isEnabled
  midiEnabled,      \* MIDIHandler.isEnabled
  activeNotes,      \* PianoKeyboard.activeNotes, in insertion order
  midiHeld,         \* environment: the notes held down on the MIDI device
  lastInput,        \* history: the last input event and the engine call it made
  order,            \* EffectsChain.order
  effectEnabled,    \* effects.get(id).enabled
  effectWet,        \* the wet value of the unit's node, in percent
  effectParams,     \* the other parameters of the unit's node, in thousandths
  graph,            \* the connections between the audio nodes
  localStorage,     \* the value stored under STORAGE_KEY
  lastFx,           \* history: the last call on the chain and the callbacks it made
  rewireQueue,      \* the connect and disconnect calls a running rewireChain has left
  pathBefore,       \* history: the signal path when the running rewireChain began
  rendered          \* history: the signal path the last render quantum went through

synthVars == <<isInitialized, startPending, oscWavetable, oscPartials, oscDayLabel,
               oscLevel, availableVoices, activeVoices, synthOsc, voiceEnv,
               voiceTimes, userVolume, masterVolume>>

histVars == <<lastCall, trigOsc>>

boundVars == <<ops>>

inputVars == <<pressedKeys, kbEnabled, midiEnabled, activeNotes, midiHeld, lastInput>>

chainVars == <<order, effectEnabled, effectWet, effectParams, graph, localStorage>>

renderVars == <<rewireQueue, pathBefore, rendered>>

fxVars == <<chainVars, lastFx, renderVars>>

clockVars == <<now>>

waveVars == <<twiddleSize, twiddleFactors, lastWave>>

uiVars == <<activeKnob, startY, startValue, knobValue, pendingUpdate, updateScheduled,
            frameCallbacks, committed, frameCommits, moved, frames, presses>>

keysVars == <<keysDown, lastKey>>

dragVars == <<draggedEffect, dropTargetIndex, modules, dragPhase>>

devVars == <<midiAccess, midiStarting, midiStarts, midiInputs, portState, onmidimessage,
             activeInput, selectedDeviceId, lastMidi>>

nameVars == <<noteOnMsg, noteOffMsg>>

extVars == <<keysVars, dragVars, devVars, nameVars>>

vars == <<synthVars, histVars, boundVars, inputVars, fxVars, clockVars, waveVars, uiVars, extVars>>

Layers == 0..(NUM_OSCILLATORS - 1)

VoiceIdx == 0..(MAX_VOICES - 1)

\* a voice is the i-th Tone.Synth created for layer osc
Voices == Layers \X VoiceIdx

\* oscillators[osc].synths
synths(osc) == {v \in Voices : v[1] = osc}

\* wavetables a caller passes: the WAVETABLE_SIZE samples generated for two days
Wavetables == { [name |-> "dayA", length |-> 2048],
                [name |-> "dayB", length |-> 2048] }

\* a caller of the public method may also pass an array of any other length:
\* the 1000 samples of a day that was not resampled
WavetableInputs == Wavetables \cup { [name |-> "raw", length |-> 1000] }

\* volumes a caller may pass, in percent: below, inside and above the range
VolumeInputs == {-20, 40, 150}

\* levels a caller may pass, in percent: below and above the clamped range
LevelInputs == {-50, 150}

\* layer indices a caller may pass: the three layers and one out of range
LayerInputs == Layers \cup {NUM_OSCILLATORS}

SineOsc == [type |-> "sine", partials |-> <<>>]

NoNote == ""

\* a record of a call: the method, its note argument (NoNote when it has none),
\* the voices it triggered or released, their oscillators at the time of the
\* call, and how it ended
Call(op, note, voices, oscs, outcome) ==
  [op |-> op, note |-> note, voices |-> voices, oscs |-> oscs, outcome |-> outcome]

\* a name that leaves out the octave
midiToNoteName_pitchClass(midiNote) ==
  LET noteNames == <<"C", "C#", "D", "D#", "E", "F", "F#", "G", "G#", "A", "A#", "B">>
  IN noteNames[(midiNote % 12) + 1]

\* midiToNoteName(midiNote)
midiToNoteName(midiNote) ==
  LET noteNames == <<"C", "C#", "D", "D#", "E", "F", "F#", "G", "G#", "A", "A#", "B">>
      octave == (midiNote \div 12) - 1
  IN noteNames[(midiNote % 12) + 1] \o ToString(octave)

\* the i-th note identifier the callers use: C4, C#4, D4, ...
NoteName(i) == midiToNoteName(59 + i)

(***************************************************************************)
(* wavetable.ts                                                            *)
(***************************************************************************)
RECURSIVE IsPowerOfTwoOrZero(_)
\* (N & (N - 1)) === 0
IsPowerOfTwoOrZero(n) ==
  IF n <= 1 THEN TRUE
  ELSE IF n % 2 = 1 THEN FALSE
  ELSE IsPowerOfTwoOrZero(n \div 2)

\* fft throws for this input
fftThrows(wavetable) == ~IsPowerOfTwoOrZero(wavetable.length)

\* the partials of a wavetable: numPartials magnitudes derived from it
computePartialsFromWavetable(wavetable, numPartials) ==
  <<wavetable.name, numPartials>>

(***************************************************************************)
(* wavetable.ts: the arithmetic                                            *)
(***************************************************************************)
\* numbers are fixed-point: ONE stands for 1.0, and an operation whose exact
\* result is no multiple of 1/ONE rounds it to the nearest one
ONE == 1024

\* the result of arithmetic on undefined (an array read outside its bounds)
NaN == -1073741824

\* a / b rounded to the nearest integer, for b > 0
RoundDiv(a, b) == (2 * a + b) \div (2 * b)

\* arr[k] of a typed array, k counted from 0
At(arr, k) == IF k >= 0 /\ k < Len(arr) THEN arr[k + 1] ELSE NaN

\* a typed array that holds the elements f gives
Float32Array(f) == SubSeq(f, 1, Len(f))

\* new Float32Array(n): n zeros
Zeros(n) == Float32Array([i \in 1..n |-> 0])

\* Math.min(...values) and Math.max(...values)
MathMin(values) == CHOOSE m \in Range(values) : \A x \in Range(values) : m <= x

MathMax(values) == CHOOSE m \in Range(values) : \A x \in Range(values) : m >= x

\* a normalization that divides by the range whatever it is: 0 / 0 is NaN
normalizeGlucoseValues_unguarded(values) ==
  IF Len(values) = 0 THEN <<>>
  ELSE LET min == MathMin(values)
           max == MathMax(values)
           range == max - min
       IN Float32Array([i \in 1..Len(values) |->
                          IF range = 0 THEN NaN
                          ELSE RoundDiv((values[i] - min) * ONE, range) * 2 - ONE])

\* a normalization by the fixed physiological range 40..400 instead of the
\* minimum and maximum of the values themselves
normalizeGlucoseValues_fixedRange(values) ==
  Float32Array([i \in 1..Len(values) |->
                  RoundDiv((values[i] - 40) * ONE, 360) * 2 - ONE])

\* normalizeGlucoseValues(values)
normalizeGlucoseValues(values) ==
  IF Len(values) = 0 THEN <<>>
  ELSE LET min == MathMin(values)
           max == MathMax(values)
           range == max - min
       IN IF range = 0 THEN Zeros(Len(values))
          ELSE Float32Array([i \in 1..Len(values) |->
                               RoundDiv((values[i] - min) * ONE, range) * 2 - ONE])

\* Math.floor(i * ratio), with ratio = length / targetSize
srcIndexFloor(i, length, targetSize) == (i * length) \div targetSize

\* the index after srcIndexFloor, not clamped
srcIndexCeil_unclamped(i, length, targetSize) ==
  srcIndexFloor(i, length, targetSize) + 1

\* Math.min(srcIndexFloor + 1, values.length - 1)
srcIndexCeil(i, length, targetSize) ==
  IF srcIndexFloor(i, length, targetSize) + 1 < length - 1
  THEN srcIndexFloor(i, length, targetSize) + 1
  ELSE length - 1

\* values[srcIndexFloor] * (1 - fraction) + values[srcIndexCeil] * fraction,
\* the fraction being rem / targetSize
Interpolate(a, b, rem, targetSize) ==
  IF a = NaN \/ b = NaN THEN NaN
  ELSE RoundDiv(a * (targetSize - rem) + b * rem, targetSize)

\* resampleToWavetableSize(values, targetSize)
resampleToWavetableSize(values, targetSize) ==
  IF Len(values) = 0 THEN Zeros(targetSize)
  ELSE IF Len(values) = targetSize THEN values
  ELSE Float32Array(
         [k \in 1..targetSize |->
            Interpolate(At(values, srcIndexFloor(k - 1, Len(values), targetSize)),
                        At(values, srcIndexCeil(k - 1, Len(values), targetSize)),
                        ((k - 1) * Len(values)) % targetSize,
                        targetSize)])

\* the indices of values that resampleToWavetableSize reads
resampleReads(values, targetSize) ==
  IF Len(values) = 0 \/ Len(values) = targetSize THEN {}
  ELSE UNION {{srcIndexFloor(k - 1, Len(values), targetSize),
               srcIndexCeil(k - 1, Len(values), targetSize)} : k \in 1..targetSize}

RECURSIVE smoothWavetable(_, _)
\* smoothWavetable(wavetable, passes): each pass is written to the buffer in
\* full and copied back
smoothWavetable(wavetable, passes) ==
  IF passes = 0 THEN wavetable
  ELSE LET len == Len(wavetable)
           temp == Float32Array(
                     [k \in 1..len |->
                        RoundDiv(wavetable[((k - 2 + len) % len) + 1]
                                   + 2 * wavetable[k]
                                   + wavetable[(k % len) + 1], 4)])
       IN smoothWavetable(temp, passes - 1)

\* generateWavetable(dayData) for the values of the readings of a day, with
\* wavetables of tableSize samples
generateWavetable(values, tableSize) ==
  IF Len(values) = 0 THEN Zeros(tableSize)
  ELSE smoothWavetable(
         resampleToWavetableSize(normalizeGlucoseValues(values), tableSize), 2)

\* cos(2 pi k / 16) and sin(2 pi k / 16) for k = 0..7
Cos16 == <<1024, 946, 724, 392, 0, -392, -724, -946>>

Sin16 == <<0, 392, 724, 946, 1024, 946, 724, 392>>

\* the twiddle factors have not been computed yet
NoFactors == [ready |-> FALSE, real |-> <<>>, imag |-> <<>>]

\* the arrays the loop of initTwiddleFactors fills: cos and sin of
\* -2 pi i / size for i < size / 2
TwiddleTable(size) ==
  [ready |-> TRUE,
   real |-> Float32Array([i \in 1..(size \div 2) |->
                            Cos16[((i - 1) * 16) \div size + 1]]),
   imag |-> Float32Array([i \in 1..(size \div 2) |->
                            -Sin16[((i - 1) * 16) \div size + 1]])]

\* the factors are computed once and kept for every later size
initTwiddleFactors_once(size, cache) ==
  IF cache.factors.ready THEN cache
  ELSE [size |-> size, factors |-> TwiddleTable(size)]

\* initTwiddleFactors(size)
initTwiddleFactors(size, cache) ==
  IF cache.size = size /\ cache.factors.ready THEN cache
  ELSE [size |-> size, factors |-> TwiddleTable(size)]

RECURSIVE Log2(_)
\* Math.log2(n) for a power of two
Log2(n) == IF n <= 1 THEN 0 ELSE 1 + Log2(n \div 2)

RECURSIVE ReversedBits(_, _, _)
\* the inner loop of bitReverse: the lowest bits of num in reverse order
ReversedBits(num, bits, reversed) ==
  IF bits = 0 THEN reversed
  ELSE ReversedBits(num \div 2, bits - 1, reversed * 2 + (num % 2))

RECURSIVE BitReverseFrom(_, _, _)
\* the outer loop of bitReverse from index i on
BitReverseFrom(arr, n, i) ==
  IF i >= n THEN arr
  ELSE LET reversed == ReversedBits(i, Log2(n), 0)
       IN BitReverseFrom(IF reversed > i
                         THEN [arr EXCEPT ![i + 1] = arr[reversed + 1],
                                          ![reversed + 1] = arr[i + 1]]
                         ELSE arr,
                         n, i + 1)

\* bitReverse(arr, n)
bitReverse(arr, n) == BitReverseFrom(arr, n, 0)

\* a - b, a + b and the rounded product sum a * c + b * d of complex
\* multiplication, on numbers that may be NaN
Minus(a, b) == IF a = NaN \/ b = NaN THEN NaN ELSE a - b

Plus(a, b) == IF a = NaN \/ b = NaN THEN NaN ELSE a + b

Products(a, c, b, d) ==
  IF a = NaN \/ b = NaN \/ c = NaN \/ d = NaN THEN NaN
  ELSE RoundDiv(a * c + b * d, ONE)

\* one pass of the outer loop of the FFT, for blocks of `size` elements: the
\* butterflies of a pass work on disjoint pairs idx1, idx2 = idx1 + halfSize
Butterflies(st, size, N, factors) ==
  LET halfSize == size \div 2
      step == N \div size
      tReal(q) == At(factors.real, ((q % size) - halfSize) * step)
      tImag(q) == At(factors.imag, ((q % size) - halfSize) * step)
      tempReal(q) == Products(At(st.real, q), tReal(q), Minus(0, At(st.imag, q)), tImag(q))
      tempImag(q) == Products(At(st.real, q), tImag(q), At(st.imag, q), tReal(q))
  IN [real |-> Float32Array(
                 [p \in 1..N |->
                    IF (p - 1) % size < halfSize
                    THEN Plus(st.real[p], tempReal(p - 1 + halfSize))
                    ELSE Minus(st.real[p - halfSize], tempReal(p - 1))]),
      imag |-> Float32Array(
                 [p \in 1..N |->
                    IF (p - 1) % size < halfSize
                    THEN Plus(st.imag[p], tempImag(p - 1 + halfSize))
                    ELSE Minus(st.imag[p - halfSize], tempImag(p - 1))])]

RECURSIVE Transform(_, _, _, _)
\* the outer loop of the FFT from blocks of `size` elements on
Transform(st, size, N, factors) ==
  IF size > N THEN st
  ELSE Transform(Butterflies(st, size, N, factors), size * 2, N, factors)

RECURSIVE SqrtSearch(_, _, _)
\* the largest r in lo..hi with r * r <= n
SqrtSearch(n, lo, hi) ==
  IF lo = hi THEN lo
  ELSE LET mid == (lo + hi + 1) \div 2
       IN IF mid * mid <= n THEN SqrtSearch(n, mid, hi) ELSE SqrtSearch(n, lo, mid - 1)

\* Math.sqrt(n), rounded
Sqrt(n) ==
  LET r == SqrtSearch(n, 0, 46340)
  IN IF n - r * r > r THEN r + 1 ELSE r

\* Math.sqrt(re * re + im * im) * normFactor, with normFactor = 2 / N
Magnitude(re, im, N) ==
  IF re = NaN \/ im = NaN THEN NaN
  ELSE RoundDiv(2 * Sqrt(re * re + im * im), N)

\* the spectrum of the input: real and imag after the transform
Spectrum(input, factors) ==
  LET N == Len(input)
  IN Transform([real |-> bitReverse(input, N), imag |-> bitReverse(Zeros(N), N)],
               2, N, factors)

\* the partials before they are divided by the fundamental
Magnitudes(input, numPartials, factors) ==
  LET st == Spectrum(input, factors)
  IN Float32Array([k \in 1..numPartials |->
                     Magnitude(At(st.real, k), At(st.imag, k), Len(input))])

\* partials.map(p => p / fundamental), with fundamental = partials[0] || 1
DivideByFundamental(partials) ==
  LET fundamental == IF partials = <<>> \/ partials[1] = 0 \/ partials[1] = NaN
                     THEN ONE
                     ELSE partials[1]
  IN Float32Array([k \in 1..Len(partials) |->
                     IF partials[k] = NaN THEN NaN
                     ELSE RoundDiv(partials[k] * ONE, fundamental)])

\* fft(input, numPartials): whether it threw, the partials it returned, and
\* the twiddle factors it leaves cached
fft(input, numPartials, cache) ==
  IF ~IsPowerOfTwoOrZero(Len(input))
  THEN [threw |-> TRUE, magnitudes |-> <<>>, partials |-> <<>>, cache |-> cache]
  ELSE LET cached == initTwiddleFactors(Len(input), cache)
           magnitudes == Magnitudes(input, numPartials, cached.factors)
       IN [threw |-> FALSE,
           magnitudes |-> magnitudes,
           partials |-> DivideByFundamental(magnitudes),
           cache |-> cached]

\* the module-level state of wavetable.ts when the page has loaded
WaveInit ==
  /\ twiddleSize = 0
  /\ twiddleFactors = NoFactors
  /\ lastWave = [op |-> "none", values |-> <<>>, size |-> 0, out |-> <<>>,
                 reads |-> {}, threw |-> FALSE, magnitudes |-> <<>>,
                 partials |-> <<>>]

(***************************************************************************)
(* controls.ts and the effects panel: the knobs                            *)
(***************************************************************************)
\* the two objects that listen to the mouse on the document: SynthControls
\* and EffectsPanel
Panels == {"synth", "fx"}

\* some knobs of each: createKnob('attack', ...), createKnob('volume', ...),
\* and the mini knob 'wet' of the reverb module
KnobIds == {<<"synth", "attack">>, <<"synth", "volume">>, <<"fx", "reverb.wet">>}

\* the largest value of a knob; a value is counted in the steps that one
\* pixel of the pointer makes (sensitivity * range, or 0.5), and the
\* smallest value of a knob is 0
KnobMax == 2

\* the vertical positions of the pointer are 0..MaxY
MaxY == 1

\* how many times the mouse button is pressed on a knob in a run
MaxPresses == 2

\* how many pointer moves are handled between two animation frames
MaxMoves == 2

\* how many animation frames a run has
MaxFrames == 2

NoKnob == <<"none", "none">>

NoUpdate == [knob |-> NoKnob, value |-> -1]

\* the state of the two panels after their construction and rendering
UiInit ==
  /\ activeKnob = [c \in Panels |-> NoKnob]
  /\ startY = [c \in Panels |-> 0]
  /\ startValue = [c \in Panels |-> 0]
  /\ knobValue = [k \in KnobIds |-> 1]
  /\ pendingUpdate = [c \in Panels |-> NoUpdate]
  /\ updateScheduled = [c \in Panels |-> FALSE]
  /\ frameCallbacks = <<>>
  /\ committed = [k \in KnobIds |-> 1]
  /\ frameCommits = <<>>
  /\ moved = [c \in Panels |-> <<>>]
  /\ frames = 0
  /\ presses = 0

(***************************************************************************)
(* GlucoseSynth                                                            *)
(***************************************************************************)
Clamp(lo, hi, x) == IF x < lo THEN lo ELSE IF x > hi THEN hi ELSE x

getActiveOscillatorCount(wt, lvl) ==
  Cardinality({o \in Layers : wt[o] /= Null /\ lvl[o] > 0})

\* 20 * Math.log10(v) for a volume v given in percent, in hundredths of a dB
Db20Log10(percent) ==
  CASE percent = 100 -> 0
    [] percent = 70 -> -310
    [] percent = 40 -> -796
    [] OTHER -> -6000

\* 20 * Math.log10(v / Math.sqrt(n)) = 20 * log10(v) - 10 * log10(n), in
\* hundredths of a dB
DbOverSqrt(percent, n) ==
  Db20Log10(percent) - (CASE n = 2 -> 301 [] n = 3 -> 477 [] OTHER -> 0)

\* updateGainCompensation: userVolume / sqrt(n) for n > 0 active layers and
\* userVolume otherwise, then dB (-60 for a volume of 0), clamped to [-60, 0]
updateGainCompensation(wt, lvl, vol) ==
  LET activeCount == getActiveOscillatorCount(wt, lvl)
      db == IF vol > 0
            THEN DbOverSqrt(vol, IF activeCount > 0 THEN activeCount ELSE 1)
            ELSE -6000
  IN Clamp(-6000, 0, db)

\* no trigger has been scheduled
NoTime == -1

NoTimes == [attack |-> NoTime, release |-> NoTime]

\* Tone.now() + AUDIO_LOOKAHEAD in noteOn
triggerTime == now + AUDIO_LOOKAHEAD

\* a release scheduled at the current time
releaseTime_now == now

\* Tone.now() + AUDIO_LOOKAHEAD in noteOff and allNotesOff
releaseTime == now + AUDIO_LOOKAHEAD

\* triggerAttack(note, triggerTime, velocity) on each of the voices
Attacked(times, voices) ==
  [v \in Voices |-> IF v \in Range(voices)
                    THEN [attack |-> triggerTime, release |-> NoTime]
                    ELSE times[v]]

\* triggerRelease(releaseTime) on each of the voices
Released(times, voices) ==
  [v \in Voices |-> IF v \in Range(voices)
                    THEN [times[v] EXCEPT !.release = releaseTime]
                    ELSE times[v]]

SynthInit ==
  /\ isInitialized = FALSE
  /\ startPending = FALSE
  /\ oscWavetable = [o \in Layers |-> Null]
  /\ oscPartials = [o \in Layers |-> <<>>]
  /\ oscDayLabel = [o \in Layers |-> ""]
  /\ oscLevel = [o \in Layers |-> IF o = 0 THEN 100 ELSE 50]
  /\ availableVoices = [o \in Layers |-> [i \in 1..MAX_VOICES |-> <<o, i - 1>>]]
  /\ activeVoices = <<>>
  /\ synthOsc = [v \in Voices |-> SineOsc]
  /\ voiceEnv = [v \in Voices |-> "none"]
  /\ voiceTimes = [v \in Voices |-> NoTimes]
  /\ now = 0
  /\ userVolume = 70
  /\ masterVolume = -600
  /\ lastCall = Call("none", NoNote, <<>>, <<>>, "none")
  /\ trigOsc = [v \in Voices |-> SineOsc]
  /\ ops = 0

\* start(), up to the await
StartCall ==
  /\ ~isInitialized
  /\ ~startPending
  /\ startPending' = TRUE
  /\ UNCHANGED <<lastCall, isInitialized, oscWavetable, oscPartials, oscDayLabel, oscLevel,
                 availableVoices, activeVoices, synthOsc, voiceEnv, voiceTimes, userVolume,
                 masterVolume, trigOsc, boundVars, inputVars, fxVars, clockVars, waveVars, uiVars, extVars>>

\* start(), after Tone.start() has resolved
StartResume ==
  /\ startPending
  /\ startPending' = FALSE
  /\ isInitialized' = TRUE
  /\ UNCHANGED <<lastCall, oscWavetable, oscPartials, oscDayLabel, oscLevel,
                 availableVoices, activeVoices, synthOsc, voiceEnv, voiceTimes, userVolume,
                 masterVolume, trigOsc, boundVars, inputVars, fxVars, clockVars, waveVars, uiVars, extVars>>

\* only the synths that are not sounding get the layer's partials
updateOscillatorPartials_idle(so, osc, partials) ==
  IF partials = <<>> THEN so
  ELSE [v \in Voices |-> IF v \in synths(osc) /\ v \in Range(availableVoices[osc])
                           THEN [type |-> "custom", partials |-> partials]
                           ELSE so[v]]

\* updateOscillatorPartials: every synth of the layer gets the layer's partials
updateOscillatorPartials(so, osc, partials) ==
  IF partials = <<>> THEN so
  ELSE [v \in Voices |-> IF v \in synths(osc)
                           THEN [type |-> "custom", partials |-> partials]
                           ELSE so[v]]

\* setWavetable(oscillatorIndex, wavetable, dayLabel)
setWavetable(osc, wavetable, dayLabel) ==
  IF osc < 0 \/ osc >= NUM_OSCILLATORS
  THEN UNCHANGED synthVars
  ELSE IF fftThrows(wavetable)
  THEN \* the exception leaves through the assignment of osc.partials
       /\ oscWavetable' = [oscWavetable EXCEPT ![osc] = wavetable]
       /\ UNCHANGED <<isInitialized, startPending, oscPartials, oscDayLabel, oscLevel,
                      availableVoices, activeVoices, synthOsc, voiceEnv, voiceTimes, userVolume,
                      masterVolume>>
  ELSE /\ oscWavetable' = [oscWavetable EXCEPT ![osc] = wavetable]
       /\ oscPartials' = [oscPartials EXCEPT
                            ![osc] = computePartialsFromWavetable(wavetable, 64)]
       /\ oscDayLabel' = [oscDayLabel EXCEPT ![osc] = dayLabel]
       /\ synthOsc' = updateOscillatorPartials(synthOsc, osc,
                          computePartialsFromWavetable(wavetable, 64))
       /\ masterVolume' = updateGainCompensation(oscWavetable', oscLevel, userVolume)
       /\ UNCHANGED <<isInitialized, startPending, oscLevel, availableVoices,
                      activeVoices, voiceEnv, voiceTimes, userVolume>>

\* clearWavetable(oscillatorIndex)
clearWavetable(osc) ==
  IF osc < 0 \/ osc >= NUM_OSCILLATORS
  THEN UNCHANGED synthVars
  ELSE /\ oscWavetable' = [oscWavetable EXCEPT ![osc] = Null]
       /\ oscPartials' = [oscPartials EXCEPT ![osc] = <<>>]
       /\ oscDayLabel' = [oscDayLabel EXCEPT ![osc] = ""]
       /\ synthOsc' = [v \in Voices |-> IF v \in synths(osc)
                                          THEN [synthOsc[v] EXCEPT !.type = "sine"]
                                          ELSE synthOsc[v]]
       /\ masterVolume' = updateGainCompensation(oscWavetable', oscLevel, userVolume)
       /\ UNCHANGED <<isInitialized, startPending, oscLevel, availableVoices,
                      activeVoices, voiceEnv, voiceTimes, userVolume>>

\* setOscillatorLevel(oscillatorIndex, level)
setOscillatorLevel(osc, level) ==
  IF osc < 0 \/ osc >= NUM_OSCILLATORS
  THEN UNCHANGED synthVars
  ELSE /\ oscLevel' = [oscLevel EXCEPT ![osc] = Clamp(0, 100, level)]
       /\ masterVolume' = updateGainCompensation(oscWavetable, oscLevel', userVolume)
       /\ UNCHANGED <<isInitialized, startPending, oscWavetable, oscPartials,
                      oscDayLabel, availableVoices, activeVoices, synthOsc, voiceEnv, voiceTimes,
                      userVolume>>

\* setVolume(volume)
setVolume(volume) ==
  /\ userVolume' = Clamp(0, 100, volume)
  /\ masterVolume' = updateGainCompensation(oscWavetable, oscLevel, userVolume')
  /\ UNCHANGED <<isInitialized, startPending, oscWavetable, oscPartials, oscDayLabel,
                 oscLevel, availableVoices, activeVoices, synthOsc, voiceEnv, voiceTimes>>

\* Map.prototype.has / get / set / delete on the insertion-ordered activeVoices
MapHas(m, note) == \E i \in 1..Len(m) : m[i].note = note

MapGet(m, note) == m[CHOOSE i \in 1..Len(m) : m[i].note = note].voices

MapSet(m, note, voices) ==
  IF MapHas(m, note)
  THEN [i \in 1..Len(m) |-> IF m[i].note = note
                              THEN [note |-> note, voices |-> voices] ELSE m[i]]
  ELSE Append(m, [note |-> note, voices |-> voices])

RECURSIVE MapDelete(_, _)
MapDelete(m, note) ==
  IF m = <<>> THEN <<>>
  ELSE IF Head(m).note = note THEN MapDelete(Tail(m), note)
       ELSE <<Head(m)>> \o MapDelete(Tail(m), note)

\* the layers noteOn does not skip
LayerSounds(osc) == oscWavetable[osc] /= Null /\ oscLevel[osc] /= 0

RECURSIVE AllocateFrom_steal(_, _)
\* voice stealing: an exhausted layer gives its first synth again
AllocateFrom_steal(osc, avail) ==
  IF osc >= NUM_OSCILLATORS THEN <<>>
  ELSE IF LayerSounds(osc)
       THEN <<IF avail[osc] /= <<>> THEN Head(avail[osc]) ELSE <<osc, 0>>>>
            \o AllocateFrom_steal(osc + 1, avail)
       ELSE AllocateFrom_steal(osc + 1, avail)

RECURSIVE AllocateFrom_break(_, _)
\* the loop ends at the first sounding layer that has no available voice
AllocateFrom_break(osc, avail) ==
  IF osc >= NUM_OSCILLATORS THEN <<>>
  ELSE IF ~LayerSounds(osc) THEN AllocateFrom_break(osc + 1, avail)
  ELSE IF avail[osc] = <<>> THEN <<>>
  ELSE <<Head(avail[osc])>> \o AllocateFrom_break(osc + 1, avail)

RECURSIVE AllocateFrom_newest(_, _)
\* every layer gives the voice that entered its available set last
AllocateFrom_newest(osc, avail) ==
  IF osc >= NUM_OSCILLATORS THEN <<>>
  ELSE IF LayerSounds(osc) /\ avail[osc] /= <<>>
       THEN <<avail[osc][Len(avail[osc])]>> \o AllocateFrom_newest(osc + 1, avail)
       ELSE AllocateFrom_newest(osc + 1, avail)

RECURSIVE AllocateFrom(_, _)
\* the loop of noteOn over the layers osc, osc+1, ...: the first available
\* voice of every layer that sounds and has one
AllocateFrom(osc, avail) ==
  IF osc >= NUM_OSCILLATORS THEN <<>>
  ELSE IF LayerSounds(osc) /\ avail[osc] /= <<>>
       THEN <<Head(avail[osc])>> \o AllocateFrom(osc + 1, avail)
       ELSE AllocateFrom(osc + 1, avail)

\* the allocated voices are not marked as in use
TakeVoices_keep(avail, voices) == avail

\* availableVoices.delete(availableVoice) for each allocated voice
TakeVoices(avail, voices) ==
  [o \in Layers |->
     IF \E v \in Range(voices) : v \in Range(avail[o])
     THEN SetDelete(avail[o], CHOOSE v \in Range(voices) : v \in Range(avail[o]))
     ELSE avail[o]]

\* a noteOn that does not look the note up in the map of sounding notes
noteOn_retrigger(note) ==
  IF ~isInitialized THEN UNCHANGED synthVars
  ELSE LET activeForNote == AllocateFrom(0, availableVoices)
       IN /\ availableVoices' = TakeVoices(availableVoices, activeForNote)
          /\ voiceEnv' = [v \in Voices |->
                            IF v \in Range(activeForNote)
                            THEN "attack"
                            ELSE voiceEnv[v]]
          /\ voiceTimes' = Attacked(voiceTimes, activeForNote)
          /\ activeVoices' = IF Len(activeForNote) > 0
                             THEN MapSet(activeVoices, note, activeForNote)
                             ELSE activeVoices
          /\ UNCHANGED <<isInitialized, startPending, oscWavetable, oscPartials,
                         oscDayLabel, oscLevel, synthOsc, userVolume, masterVolume>>

\* a noteOn that does not ask whether the engine has been started
noteOn_unguarded(note) ==
  IF MapHas(activeVoices, note) THEN UNCHANGED synthVars
  ELSE LET activeForNote == AllocateFrom(0, availableVoices)
       IN /\ availableVoices' = TakeVoices(availableVoices, activeForNote)
          /\ voiceEnv' = [v \in Voices |->
                            IF v \in Range(activeForNote)
                            THEN "attack"
                            ELSE voiceEnv[v]]
          /\ voiceTimes' = Attacked(voiceTimes, activeForNote)
          /\ activeVoices' = IF Len(activeForNote) > 0
                             THEN MapSet(activeVoices, note, activeForNote)
                             ELSE activeVoices
          /\ UNCHANGED <<isInitialized, startPending, oscWavetable, oscPartials,
                         oscDayLabel, oscLevel, synthOsc, userVolume, masterVolume>>

\* noteOn(note, velocity)
noteOn(note) ==
  IF ~isInitialized THEN UNCHANGED synthVars
  ELSE IF MapHas(activeVoices, note) THEN UNCHANGED synthVars
  ELSE LET activeForNote == AllocateFrom(0, availableVoices)
       IN /\ availableVoices' = TakeVoices(availableVoices, activeForNote)
          /\ voiceEnv' = [v \in Voices |->
                            IF v \in Range(activeForNote)
                            THEN "attack"
                            ELSE voiceEnv[v]]
          /\ voiceTimes' = Attacked(voiceTimes, activeForNote)
          /\ activeVoices' = IF Len(activeForNote) > 0
                             THEN MapSet(activeVoices, note, activeForNote)
                             ELSE activeVoices
          /\ UNCHANGED <<isInitialized, startPending, oscWavetable, oscPartials,
                         oscDayLabel, oscLevel, synthOsc, userVolume, masterVolume>>

\* the first layer whose synths include the voice
OwnerOf(voice) ==
  CHOOSE o \in Layers : voice \in synths(o) /\ \A p \in Layers : p < o => voice \notin synths(p)

RECURSIVE ReturnVoices_sounding(_, _)
\* only the voices of the layers that sound now go back to their sets
ReturnVoices_sounding(voices, avail) ==
  IF voices = <<>> THEN avail
  ELSE ReturnVoices_sounding(Tail(voices),
         IF LayerSounds(OwnerOf(Head(voices)))
         THEN [avail EXCEPT ![OwnerOf(Head(voices))] = SetAdd(@, Head(voices))]
         ELSE avail)

\* only the first voice of the note goes back to its set
ReturnVoices_firstOnly(voices, avail) ==
  IF voices = <<>> THEN avail
  ELSE [avail EXCEPT ![OwnerOf(Head(voices))] = SetAdd(@, Head(voices))]

\* the voices go back to their sets only when their release tail has ended,
\* not in the call that triggers the release
ReturnVoices_afterTail(voices, avail) == avail

RECURSIVE ReturnVoices(_, _)
\* the inner loop of noteOff / allNotesOff: each voice goes back to its owner's set
ReturnVoices(voices, avail) ==
  IF voices = <<>> THEN avail
  ELSE ReturnVoices(Tail(voices),
         [avail EXCEPT ![OwnerOf(Head(voices))] = SetAdd(@, Head(voices))])

\* noteOff(note)
noteOff(note) ==
  IF ~MapHas(activeVoices, note) THEN UNCHANGED synthVars
  ELSE LET voices == MapGet(activeVoices, note)
       IN /\ voiceEnv' = [v \in Voices |->
                            IF v \in Range(voices)
                            THEN "release"
                            ELSE voiceEnv[v]]
          /\ voiceTimes' = Released(voiceTimes, voices)
          /\ availableVoices' = ReturnVoices(voices, availableVoices)
          /\ activeVoices' = MapDelete(activeVoices, note)
          /\ UNCHANGED <<isInitialized, startPending, oscWavetable, oscPartials,
                         oscDayLabel, oscLevel, synthOsc, userVolume, masterVolume>>

RECURSIVE AllVoicesOf(_)
\* the voices of all entries of the map, in iteration order
AllVoicesOf(m) == IF m = <<>> THEN <<>> ELSE Head(m).voices \o AllVoicesOf(Tail(m))

\* allNotesOff()
allNotesOff ==
  /\ voiceEnv' = [v \in Voices |->
                    IF v \in Range(AllVoicesOf(activeVoices))
                    THEN "release"
                    ELSE voiceEnv[v]]
  /\ voiceTimes' = Released(voiceTimes, AllVoicesOf(activeVoices))
  /\ availableVoices' = ReturnVoices(AllVoicesOf(activeVoices), availableVoices)
  /\ activeVoices' = <<>>
  /\ UNCHANGED <<isInitialized, startPending, oscWavetable, oscPartials,
                 oscDayLabel, oscLevel, synthOsc, userVolume, masterVolume>>

(***************************************************************************)
(* History of the calls                                                    *)
(***************************************************************************)
\* how a noteOn(note) made in the current state ends
NoteOnOutcome(note) ==
  IF ~isInitialized THEN "not-started"
  ELSE IF MapHas(activeVoices, note) THEN "already-sounding"
  ELSE IF AllocateFrom(0, availableVoices) = <<>> THEN "no-voice"
  ELSE "triggered"

\* the voices a noteOn(note) made in the current state triggers
NoteOnVoices(note) ==
  IF NoteOnOutcome(note) = "triggered" THEN AllocateFrom(0, availableVoices) ELSE <<>>

\* the voices a noteOff(note) made in the current state releases
NoteOffVoices(note) ==
  IF MapHas(activeVoices, note) THEN MapGet(activeVoices, note) ELSE <<>>

\* the oscillators of a sequence of voices
OscsOf(voices) == [i \in 1..Len(voices) |-> synthOsc[voices[i]]]

\* trigOsc after a noteOn: a triggered voice remembers its oscillator
TrigOscAfter(triggered) ==
  [v \in Voices |-> IF v \in Range(triggered) THEN synthOsc[v] ELSE trigOsc[v]]

(***************************************************************************)
(* The engine driven through its public methods                            *)
(***************************************************************************)
\* callers take fresh note identifiers in ascending order (identifiers are
\* interchangeable: the engine only compares them for equality)
NoteInputs(maxNotes) ==
  {NoteName(i) : i \in {n \in 1..maxNotes :
                           \/ MapHas(activeVoices, NoteName(n))
                           \/ \A m \in 1..maxNotes :
                                 m < n => MapHas(activeVoices, NoteName(m))}}

\* a call that changes the configuration or releases voices uses up one unit
Spend(does, maxOps) ==
  /\ does => ops < maxOps
  /\ ops' = IF does THEN ops + 1 ELSE ops

SetWavetableCall(maxOps) ==
  \E osc \in LayerInputs, w \in Wavetables :
     /\ Spend(osc \in Layers, maxOps)
     /\ setWavetable(osc, w, w.name)
     /\ UNCHANGED <<histVars, inputVars, fxVars, clockVars, waveVars, uiVars, extVars>>

ClearWavetableCall(maxOps) ==
  \E osc \in LayerInputs :
     /\ Spend(osc \in Layers, maxOps)
     /\ clearWavetable(osc)
     /\ UNCHANGED <<histVars, inputVars, fxVars, clockVars, waveVars, uiVars, extVars>>

SetOscillatorLevelCall(maxOps) ==
  \E osc \in LayerInputs, level \in LevelInputs :
     /\ Spend(osc \in Layers, maxOps)
     /\ setOscillatorLevel(osc, level)
     /\ UNCHANGED <<histVars, inputVars, fxVars, clockVars, waveVars, uiVars, extVars>>

NoteOnCall(maxNotes) ==
  \E note \in NoteInputs(maxNotes) :
     /\ noteOn(note)
     /\ lastCall' = IF NoteOnOutcome(note) \in {"triggered", "no-voice"}
                    THEN Call("noteOn", note, NoteOnVoices(note), OscsOf(NoteOnVoices(note)),
                              NoteOnOutcome(note))
                    ELSE lastCall
     /\ trigOsc' = TrigOscAfter(NoteOnVoices(note))
     /\ UNCHANGED <<boundVars, inputVars, fxVars, clockVars, waveVars, uiVars, extVars>>

NoteOffCall(maxOps, maxNotes) ==
  \E note \in NoteInputs(maxNotes) :
     /\ Spend(MapHas(activeVoices, note), maxOps)
     /\ noteOff(note)
     /\ lastCall' = Call("noteOff", note, NoteOffVoices(note),
                         OscsOf(NoteOffVoices(note)),
                         IF MapHas(activeVoices, note) THEN "released" ELSE "unknown-note")
     /\ UNCHANGED <<trigOsc, inputVars, fxVars, clockVars, waveVars, uiVars, extVars>>

AllNotesOffCall(maxOps) ==
  /\ Spend(activeVoices /= <<>>, maxOps)
  /\ allNotesOff
  /\ lastCall' = Call("allNotesOff", NoNote, AllVoicesOf(activeVoices),
                      OscsOf(AllVoicesOf(activeVoices)), "released")
  /\ UNCHANGED <<trigOsc, inputVars, fxVars, clockVars, waveVars, uiVars, extVars>>

\* setWavetable with an array of any length: the call returns or throws
SetWavetableAnyLength(maxOps) ==
  \E osc \in LayerInputs, w \in WavetableInputs :
     /\ Spend(osc \in Layers, maxOps)
     /\ setWavetable(osc, w, w.name)
     /\ lastCall' = Call("setWavetable", NoNote, <<>>, <<>>,
                         IF osc \in Layers /\ fftThrows(w) THEN "threw" ELSE "returned")
     /\ UNCHANGED <<trigOsc, inputVars, fxVars, clockVars, waveVars, uiVars, extVars>>

SetVolumeCall(maxOps) ==
  \E volume \in VolumeInputs :
     /\ Spend(TRUE, maxOps)
     /\ setVolume(volume)
     /\ UNCHANGED <<histVars, inputVars, fxVars, clockVars, waveVars, uiVars, extVars>>

(***************************************************************************)
(* Input handlers: computer keyboard, MIDI, on-screen piano                *)
(***************************************************************************)
\* the keys a user presses: two mapped keys and one that maps to no note
InputKeys == {"q", "2", "enter"}

\* KeyboardHandler.keyMap, for the keys above (Q is C4, 2 is C#4)
keyMap == [key \in {"q", "2"} |-> IF key = "q" THEN "C4" ELSE "C#4"]

\* the notes of the on-screen keys a user clicks or touches
PianoNotes == {keyMap[key] : key \in DOMAIN keyMap}

\* MIDI messages a device sends: note on and note off on two channels, a note
\* on with velocity 0 and one without a velocity byte, a control change, and
\* a message of one byte
MidiMessages == { <<144, 60, 100>>, <<145, 61, 100>>, <<128, 60, 0>>, <<144, 61, 0>>,
                  <<144, 60>>, <<176, 60, 100>>, <<144>> }

NoInput == [seq |-> 0, call |-> "none", note |-> NoNote, wasSounding |-> FALSE]

\* the event an input handler has just handled, and the engine call it made
Event(call, note) ==
  [seq |-> 1 - lastInput.seq, call |-> call, note |-> note,
   wasSounding |-> MapHas(activeVoices, note)]

InputInit ==
  /\ pressedKeys = <<>>
  /\ kbEnabled = TRUE
  /\ midiEnabled = TRUE
  /\ activeNotes = <<>>
  /\ midiHeld = {}
  /\ lastInput = NoInput

\* KeyboardHandler.handleKeyDown
handleKeyDown(key, inputFocused) ==
  IF ~kbEnabled \/ inputFocused
  THEN /\ lastInput' = Event("none", NoNote)
       /\ UNCHANGED <<synthVars, pressedKeys, trigOsc>>
  ELSE IF key \in DOMAIN keyMap /\ key \notin Range(pressedKeys)
  THEN /\ pressedKeys' = SetAdd(pressedKeys, key)
       /\ noteOn(keyMap[key])
       /\ trigOsc' = TrigOscAfter(NoteOnVoices(keyMap[key]))
       /\ lastInput' = Event("noteOn", keyMap[key])
  ELSE /\ lastInput' = Event("none", NoNote)
       /\ UNCHANGED <<synthVars, pressedKeys, trigOsc>>

\* KeyboardHandler.handleKeyUp
handleKeyUp(key) ==
  IF kbEnabled /\ key \in DOMAIN keyMap /\ key \in Range(pressedKeys)
  THEN /\ pressedKeys' = SetDelete(pressedKeys, key)
       /\ noteOff(keyMap[key])
       /\ lastInput' = Event("noteOff", keyMap[key])
  ELSE /\ lastInput' = Event("none", NoNote)
       /\ UNCHANGED <<synthVars, pressedKeys>>

RECURSIVE ReleaseNotes(_, _)
\* the voice pools after synth.noteOff for each of the notes in turn
ReleaseNotes(notes, st) ==
  IF notes = <<>> THEN st
  ELSE IF ~MapHas(st.active, Head(notes)) THEN ReleaseNotes(Tail(notes), st)
  ELSE LET voices == MapGet(st.active, Head(notes))
       IN ReleaseNotes(Tail(notes),
            [active |-> MapDelete(st.active, Head(notes)),
             avail |-> ReturnVoices(voices, st.avail),
             env |-> [v \in Voices |-> IF v \in Range(voices) THEN "release"
                                       ELSE st.env[v]],
             times |-> Released(st.times, voices)])

\* KeyboardHandler.allNotesOff
keyboardAllNotesOff ==
  LET notes == [i \in 1..Len(pressedKeys) |-> keyMap[pressedKeys[i]]]
      st == ReleaseNotes(notes, [active |-> activeVoices, avail |-> availableVoices,
                                 env |-> voiceEnv, times |-> voiceTimes])
  IN /\ activeVoices' = st.active
     /\ availableVoices' = st.avail
     /\ voiceEnv' = st.env
     /\ voiceTimes' = st.times
     /\ pressedKeys' = <<>>
     /\ UNCHANGED <<isInitialized, startPending, oscWavetable, oscPartials,
                    oscDayLabel, oscLevel, synthOsc, userVolume, masterVolume>>

\* KeyboardHandler.setEnabled
keyboardSetEnabled(enabled) ==
  /\ kbEnabled' = enabled
  /\ IF ~enabled THEN keyboardAllNotesOff ELSE UNCHANGED <<synthVars, pressedKeys>>
  /\ lastInput' = Event("none", NoNote)

\* MIDIHandler.setEnabled
midiSetEnabled(enabled) ==
  /\ midiEnabled' = enabled
  /\ IF ~enabled THEN allNotesOff ELSE UNCHANGED synthVars
  /\ lastInput' = Event("none", NoNote)

\* status & 0xf0
messageType(status) == status - (status % 16)

\* MIDIHandler.handleMIDIMessage
handleMIDIMessage(data) ==
  IF ~midiEnabled \/ Len(data) < 2
  THEN /\ lastInput' = Event("none", NoNote)
       /\ UNCHANGED <<synthVars, trigOsc>>
  ELSE LET velocity == IF Len(data) > 2 THEN data[3] ELSE 0
           noteName == midiToNoteName(data[2])
       IN IF messageType(data[1]) = 144 /\ velocity > 0
          THEN /\ noteOn(noteName)
               /\ trigOsc' = TrigOscAfter(NoteOnVoices(noteName))
               /\ lastInput' = Event("noteOn", noteName)
          ELSE IF messageType(data[1]) \in {144, 128}
          THEN /\ noteOff(noteName)
               /\ lastInput' = Event("noteOff", noteName)
               /\ UNCHANGED trigOsc
          ELSE /\ lastInput' = Event("none", NoNote)
               /\ UNCHANGED <<synthVars, trigOsc>>

\* the keys held down on the device after it has sent the message
MidiHeldAfter(data) ==
  IF Len(data) < 2 \/ messageType(data[1]) \notin {144, 128} THEN midiHeld
  ELSE IF messageType(data[1]) = 144 /\ Len(data) > 2 /\ data[3] > 0
       THEN midiHeld \cup {midiToNoteName(data[2])}
       ELSE midiHeld \ {midiToNoteName(data[2])}

\* PianoKeyboard.handleNoteOn
handleNoteOn(note) ==
  IF note \in Range(activeNotes)
  THEN /\ lastInput' = Event("none", NoNote)
       /\ UNCHANGED <<synthVars, activeNotes, trigOsc>>
  ELSE /\ noteOn(note)
       /\ trigOsc' = TrigOscAfter(NoteOnVoices(note))
       /\ activeNotes' = SetAdd(activeNotes, note)
       /\ lastInput' = Event("noteOn", note)

\* PianoKeyboard.handleNoteOff
handleNoteOff(note) ==
  IF note \notin Range(activeNotes)
  THEN /\ lastInput' = Event("none", NoNote)
       /\ UNCHANGED <<synthVars, activeNotes>>
  ELSE /\ noteOff(note)
       /\ activeNotes' = SetDelete(activeNotes, note)
       /\ lastInput' = Event("noteOff", note)

\* the page loads a wavetable into the first layer
LoadFirstDay ==
  /\ oscWavetable[0] = Null
  /\ \E w \in Wavetables :
        /\ w.name = "dayA"
        /\ setWavetable(0, w, w.name)
  /\ UNCHANGED <<histVars, boundVars, inputVars, fxVars, clockVars, waveVars, uiVars, extVars>>

\* an input event that releases voices uses up one unit
SpendRelease(maxOps) ==
  /\ Len(activeVoices') < Len(activeVoices) => ops < maxOps
  /\ ops' = IF Len(activeVoices') < Len(activeVoices) THEN ops + 1 ELSE ops

KeyDown ==
  \E key \in InputKeys, inputFocused \in BOOLEAN :
     /\ handleKeyDown(key, inputFocused)
     /\ UNCHANGED <<kbEnabled, midiEnabled, activeNotes, midiHeld, lastCall, boundVars,
                    fxVars, clockVars, waveVars, uiVars, extVars>>

KeyUp(maxOps) ==
  \E key \in InputKeys :
     /\ handleKeyUp(key)
     /\ UNCHANGED <<kbEnabled, midiEnabled, activeNotes, midiHeld, histVars, fxVars, clockVars, waveVars, uiVars, extVars>>
     /\ SpendRelease(maxOps)

KeyboardSetEnabled(maxOps) ==
  \E enabled \in BOOLEAN :
     /\ keyboardSetEnabled(enabled)
     /\ UNCHANGED <<midiEnabled, activeNotes, midiHeld, histVars, fxVars, clockVars, waveVars, uiVars, extVars>>
     /\ SpendRelease(maxOps)

MidiMessage(maxOps) ==
  \E data \in MidiMessages :
     /\ handleMIDIMessage(data)
     /\ midiHeld' = MidiHeldAfter(data)
     /\ UNCHANGED <<pressedKeys, kbEnabled, midiEnabled, activeNotes, lastCall, fxVars, clockVars, waveVars, uiVars, extVars>>
     /\ SpendRelease(maxOps)

MidiSetEnabled(maxOps) ==
  \E enabled \in BOOLEAN :
     /\ midiSetEnabled(enabled)
     /\ UNCHANGED <<pressedKeys, kbEnabled, activeNotes, midiHeld, histVars, fxVars, clockVars, waveVars, uiVars, extVars>>
     /\ SpendRelease(maxOps)

PianoPress ==
  \E note \in PianoNotes :
     /\ handleNoteOn(note)
     /\ UNCHANGED <<pressedKeys, kbEnabled, midiEnabled, midiHeld, lastCall, boundVars,
                    fxVars, clockVars, waveVars, uiVars, extVars>>

PianoRelease(maxOps) ==
  \E note \in PianoNotes :
     /\ handleNoteOff(note)
     /\ UNCHANGED <<pressedKeys, kbEnabled, midiEnabled, midiHeld, histVars, fxVars, clockVars, waveVars, uiVars, extVars>>
     /\ SpendRelease(maxOps)

(***************************************************************************)
(* Effects chain                                                           *)
(***************************************************************************)
DEFAULT_ORDER ==
  <<"compressor", "eq3", "bitcrusher", "distortion", "autowah", "autofilter", "phaser",
    "chorus", "tremolo", "vibrato", "freqshift", "pitchshift", "delay", "reverb",
    "stereowidener">>

\* the keys of the effects Map
EffectIds == Range(DEFAULT_ORDER)

\* the units whose node has a wet parameter
WetIds == EffectIds \ {"compressor", "eq3"}

\* RANDOM_RANGES[id].wet, in percent
RandomWetMin == [id \in WetIds |-> IF id = "reverb" THEN 10 ELSE 0]

RandomWetMax ==
  [id \in WetIds |->
     CASE id \in {"phaser", "vibrato"} -> 70
       [] id \in {"chorus", "freqshift"} -> 60
       [] id \in {"delay", "reverb"} -> 50
       [] id = "stereowidener" -> 100
       [] OTHER -> 80]

\* the wet value reset() passes, in percent
DefaultWet == [id \in WetIds |-> IF id \in {"delay", "reverb"} THEN 30 ELSE 50]

\* the parameters other than wet that the setters write, with the values the
\* nodes are constructed with, in thousandths; reset() passes the same values
FactoryParams ==
  [id \in EffectIds |->
     CASE id = "compressor" ->
            [threshold |-> -20000, ratio |-> 4000, attack |-> 3, release |-> 250]
       [] id = "eq3" -> [low |-> 0, mid |-> 0, high |-> 0]
       [] id = "bitcrusher" -> [bits |-> 8000]
       [] id = "distortion" -> [amount |-> 400]
       [] id = "autowah" -> [baseFrequency |-> 200000, octaves |-> 4000, sensitivity |-> 0]
       [] id = "autofilter" -> [frequency |-> 2000, depth |-> 500, octaves |-> 2500]
       [] id = "phaser" -> [frequency |-> 2000, octaves |-> 2000]
       [] id = "chorus" -> [frequency |-> 1500, depth |-> 500]
       [] id = "tremolo" -> [frequency |-> 6000, depth |-> 500]
       [] id = "vibrato" -> [frequency |-> 5000, depth |-> 200]
       [] id = "freqshift" -> [frequency |-> 0]
       [] id = "pitchshift" -> [pitch |-> 0]
       [] id = "delay" -> [time |-> 250, feedback |-> 400]
       [] id = "reverb" -> [decay |-> 1500]
       [] OTHER -> [width |-> 500]]

\* RANDOM_RANGES[id][param].min for the parameters other than wet, in thousandths
RandomMin ==
  [id \in EffectIds |->
     CASE id = "compressor" -> [threshold |-> -30000, ratio |-> 2000]
       [] id = "eq3" -> [low |-> -12000, mid |-> -12000, high |-> -12000]
       [] id = "bitcrusher" -> [bits |-> 4000]
       [] id = "distortion" -> [amount |-> 0]
       [] id = "autowah" -> [baseFrequency |-> 100000, octaves |-> 2000, sensitivity |-> 0]
       [] id = "autofilter" -> [frequency |-> 500, depth |-> 200, octaves |-> 1000]
       [] id = "phaser" -> [frequency |-> 500, octaves |-> 1000]
       [] id = "chorus" -> [frequency |-> 500, depth |-> 200]
       [] id = "tremolo" -> [frequency |-> 2000, depth |-> 300]
       [] id = "vibrato" -> [frequency |-> 2000, depth |-> 100]
       [] id = "freqshift" -> [frequency |-> -500000]
       [] id = "pitchshift" -> [pitch |-> -12000]
       [] id = "delay" -> [time |-> 100, feedback |-> 200]
       [] id = "reverb" -> [decay |-> 500]
       [] OTHER -> [width |-> 0]]

\* RANDOM_RANGES[id][param].max for the parameters other than wet, in thousandths
RandomMax ==
  [id \in EffectIds |->
     CASE id = "compressor" -> [threshold |-> -10000, ratio |-> 8000]
       [] id = "eq3" -> [low |-> 12000, mid |-> 12000, high |-> 12000]
       [] id = "bitcrusher" -> [bits |-> 12000]
       [] id = "distortion" -> [amount |-> 600]
       [] id = "autowah" -> [baseFrequency |-> 800000, octaves |-> 6000, sensitivity |-> 0]
       [] id = "autofilter" -> [frequency |-> 8000, depth |-> 1000, octaves |-> 4000]
       [] id = "phaser" -> [frequency |-> 8000, octaves |-> 3000]
       [] id = "chorus" -> [frequency |-> 4000, depth |-> 800]
       [] id = "tremolo" -> [frequency |-> 12000, depth |-> 1000]
       [] id = "vibrato" -> [frequency |-> 10000, depth |-> 500]
       [] id = "freqshift" -> [frequency |-> 500000]
       [] id = "pitchshift" -> [pitch |-> 12000]
       [] id = "delay" -> [time |-> 500, feedback |-> 600]
       [] id = "reverb" -> [decay |-> 3000]
       [] OTHER -> [width |-> 1000]]

\* the parameters randomize() passes through Math.round
RoundedParams ==
  { <<"bitcrusher", "bits">>, <<"autowah", "octaves">>, <<"autofilter", "octaves">>,
    <<"phaser", "octaves">>, <<"pitchshift", "pitch">> }

\* the parameters other than wet that randomize() passes to the setter of the
\* unit: all that have a range but the sensitivity of the auto-wah
RandomizedNames(id) == (DOMAIN RandomMin[id]) \ {"sensitivity"}

\* Math.round of a value in thousandths
Round(x) == ((x + 500) \div 1000) * 1000

\* no parameter other than wet and enabled is given
NoValues == [n \in {} |-> 0]

\* a token of JSON text: a bracket, a brace, a comma, the word null (v is
\* empty) or a quoted string (v is the string)
Token(t, v) == [t |-> t, v |-> v]

\* what localStorage holds under STORAGE_KEY: kind "absent" (getItem returns
\* null), "denied" (getItem throws) or "text" with the tokens of the string
Stored(kind, text) == [kind |-> kind, text |-> text]

\* a value JSON.parse returns, or the SyntaxError it throws (type "error")
Parsed(type, items) == [type |-> type, items |-> items]

\* the elements of a JSON array with no comma between them
RECURSIVE Elements_noComma(_)
Elements_noComma(list) ==
  IF list = <<>> THEN <<>>
  ELSE <<Token("str", Head(list))>> \o Elements_noComma(Tail(list))

\* the elements of a JSON array, each followed by a comma but the last
RECURSIVE Elements(_)
Elements(list) ==
  IF list = <<>> THEN <<>>
  ELSE IF Len(list) = 1 THEN <<Token("str", Head(list))>>
  ELSE <<Token("str", Head(list)), Token(",", "")>> \o Elements(Tail(list))

\* JSON.stringify of an array of strings
Stringify(ord) ==
  Stored("text", <<Token("[", "")>> \o Elements(ord) \o <<Token("]", "")>>)

\* the strings of the elements of a JSON array, or the error of an element
\* that is no string or of a comma that is missing or left over
RECURSIVE ParseElements(_)
ParseElements(text) ==
  IF text = <<>> THEN Parsed("error", <<>>)
  ELSE IF Head(text).t /= "str" THEN Parsed("error", <<>>)
  ELSE IF Len(text) = 1 THEN Parsed("array", <<Head(text).v>>)
  ELSE IF text[2].t /= "," THEN Parsed("error", <<>>)
  ELSE LET rest == ParseElements(SubSeq(text, 3, Len(text)))
       IN IF rest.type = "error" THEN rest
          ELSE Parsed("array", <<Head(text).v>> \o rest.items)

\* JSON.parse of text that is null, {}, a string or an array of strings
JSONparse(text) ==
  IF text = <<Token("null", "")>> THEN Parsed("null", <<>>)
  ELSE IF text = <<Token("{", ""), Token("}", "")>> THEN Parsed("object", <<>>)
  ELSE IF Len(text) = 1 /\ Head(text).t = "str" THEN Parsed("string", <<>>)
  ELSE IF Len(text) >= 2 /\ Head(text).t = "[" /\ text[Len(text)].t = "]"
  THEN IF Len(text) = 2 THEN Parsed("array", <<>>)
       ELSE ParseElements(SubSeq(text, 2, Len(text) - 1))
  ELSE Parsed("error", <<>>)

\* loadOrder that takes any stored array of the right length
loadOrder_length(stored) ==
  IF stored.kind = "text" /\ stored.text /= <<>>
       /\ JSONparse(stored.text).type = "array"
       /\ Len(JSONparse(stored.text).items) = Len(DEFAULT_ORDER)
  THEN JSONparse(stored.text).items
  ELSE DEFAULT_ORDER

\* loadOrder that takes any stored array of the right length whose elements
\* are all known effect ids
loadOrder_known(stored) ==
  IF stored.kind = "text" /\ stored.text /= <<>>
       /\ JSONparse(stored.text).type = "array"
       /\ Len(JSONparse(stored.text).items) = Len(DEFAULT_ORDER)
       /\ Range(JSONparse(stored.text).items) \subseteq Range(DEFAULT_ORDER)
  THEN JSONparse(stored.text).items
  ELSE DEFAULT_ORDER

\* loadOrder: a storage that denies access throws into the catch; nothing
\* stored or an empty string is falsy; text that does not parse and a stored
\* null (reading its length throws) end in the catch; an object has no length,
\* and a string of length 15 cannot include every id
loadOrder(stored) ==
  IF stored.kind /= "text" \/ stored.text = <<>> THEN DEFAULT_ORDER
  ELSE LET parsed == JSONparse(stored.text)
       IN IF /\ parsed.type = "array"
             /\ Len(parsed.items) = Len(DEFAULT_ORDER)
             /\ \A i \in 1..Len(DEFAULT_ORDER) : DEFAULT_ORDER[i] \in Range(parsed.items)
          THEN parsed.items
          ELSE DEFAULT_ORDER

\* saveOrder: setItem may throw, which is caught
saveOrder(ord, stored, storageFails) ==
  IF storageFails THEN stored ELSE Stringify(ord)

\* effect && effect.enabled
IsOn(enabled, id) == id \in DOMAIN enabled /\ enabled[id]

\* the connect and disconnect calls of rewireChain, in the order it makes them
RewireSteps(ord, enabled) ==
  LET path == <<"input">> \o SeqFilterIn(ord, {id \in Range(ord) : IsOn(enabled, id)})
                \o <<"output">>
  IN <<[op |-> "disconnect", from |-> "input", to |-> ""]>>
     \o [i \in 1..Len(DEFAULT_ORDER) |->
           [op |-> "disconnect", from |-> DEFAULT_ORDER[i], to |-> ""]]
     \o [i \in 1..(Len(path) - 1) |-> [op |-> "connect", from |-> path[i], to |-> path[i + 1]]]

\* node.disconnect() removes every outgoing connection; a.connect(b) adds one
ApplyStep(g, step) ==
  CASE step.op = "disconnect" -> {e \in g : e[1] /= step.from}
    [] step.op = "connect" -> g \cup {<<step.from, step.to>>}
    [] OTHER -> g

RECURSIVE ApplySteps(_, _)
ApplySteps(g, steps) ==
  IF steps = <<>> THEN g
  ELSE LET next == ApplyStep(g, Head(steps))
       IN IF next = {} THEN ApplySteps({}, Tail(steps)) ELSE ApplySteps(next, Tail(steps))

\* a rewireChain that disconnects the input only
rewireChain_inputOnly(g, ord, enabled) ==
  ApplySteps(g, SeqFilterIn(RewireSteps(ord, enabled),
                            {st \in Range(RewireSteps(ord, enabled)) :
                               st.op = "connect" \/ st.from = "input"}))

\* rewireChain
rewireChain(g, ord, enabled) == ApplySteps(g, RewireSteps(ord, enabled))

\* the chain as the methods below read and change it, with the callbacks made
Chain == [order |-> order, enabled |-> effectEnabled, wet |-> effectWet,
          params |-> effectParams, graph |-> graph, changeCalls |-> 0, orderCalls |-> <<>>]

\* reorder accepts every list of the right length
reorderAccepts_length(newOrder) == Len(newOrder) = Len(DEFAULT_ORDER)

\* the validation of reorder
reorderAccepts(newOrder) ==
  /\ Len(newOrder) = Len(DEFAULT_ORDER)
  /\ \A i \in 1..Len(DEFAULT_ORDER) : DEFAULT_ORDER[i] \in Range(newOrder)

\* reorder, but for saveOrder
reorder(c, newOrder) ==
  IF ~reorderAccepts(newOrder) THEN c
  ELSE [c EXCEPT !.order = newOrder,
                 !.graph = rewireChain(c.graph, newOrder, c.enabled),
                 !.orderCalls = Append(@, newOrder)]

\* a setEnabled that bypasses a unit by also setting its wet value to 0
setEnabled_resetsWet(c, effectId, enabled) ==
  IF effectId \notin DOMAIN c.enabled \/ c.enabled[effectId] = enabled THEN c
  ELSE LET flags == [c.enabled EXCEPT ![effectId] = enabled]
       IN [c EXCEPT !.enabled = flags,
                    !.wet = IF ~enabled /\ effectId \in WetIds
                            THEN [c.wet EXCEPT ![effectId] = 0] ELSE c.wet,
                    !.graph = rewireChain(c.graph, c.order, flags),
                    !.changeCalls = @ + 1]

\* setEnabled
setEnabled(c, effectId, enabled) ==
  IF effectId \notin DOMAIN c.enabled \/ c.enabled[effectId] = enabled THEN c
  ELSE LET flags == [c.enabled EXCEPT ![effectId] = enabled]
       IN [c EXCEPT !.enabled = flags,
                    !.graph = rewireChain(c.graph, c.order, flags),
                    !.changeCalls = @ + 1]

\* a parameter object: wet and enabled, each of which may be left out, and
\* the values of those of the other parameters that are given
Params(hasWet, wet, hasEnabled, enabled, values) ==
  [hasWet |-> hasWet, wet |-> wet, hasEnabled |-> hasEnabled, enabled |-> enabled,
   values |-> values]

\* setCompressor ... setStereoWidener
setEffect(c, effectId, params) ==
  LET wetGiven == effectId \in WetIds /\ params.hasWet
      c0 == [c EXCEPT !.params[effectId] =
               [n \in DOMAIN @ |-> IF n \in DOMAIN params.values
                                    THEN params.values[n] ELSE @[n]]]
      c1 == IF wetGiven /\ c.enabled[effectId]
            THEN [c0 EXCEPT !.wet[effectId] = params.wet] ELSE c0
      c2 == IF params.hasEnabled THEN setEnabled(c1, effectId, params.enabled) ELSE c1
      c3 == IF params.hasEnabled /\ params.enabled /\ wetGiven
            THEN [c2 EXCEPT !.wet[effectId] = params.wet] ELSE c2
  IN [c3 EXCEPT !.changeCalls = @ + 1]

RECURSIVE DisableAll(_, _)
\* setEnabled(effectId, false) for each id in turn
DisableAll(c, ids) ==
  IF ids = <<>> THEN c
  ELSE LET next == setEnabled(c, Head(ids), FALSE)
       IN IF next = c THEN DisableAll(c, Tail(ids)) ELSE DisableAll(next, Tail(ids))

RECURSIVE SetEffects(_, _, _)
\* the setter of each id in turn, with the parameters given for it
SetEffects(c, ids, params) ==
  IF ids = <<>> THEN c
  ELSE LET next == setEffect(c, Head(ids), params[Head(ids)])
       IN IF next = c THEN SetEffects(c, Tail(ids), params)
          ELSE SetEffects(next, Tail(ids), params)

\* Math.random() * max + min
rand_unscaled(min, max, draw) == min + (max * draw) \div 100

\* rand(min, max) for a draw of Math.random() given in percent
rand(min, max, draw) == min + ((max - min) * draw) \div 100

\* randomize, for a shuffle, a number of units and a draw
randomize(c, shuffledEffects, numEffects, draw) ==
  LET selectedEffects == {shuffledEffects[i] : i \in 1..numEffects}
  IN SetEffects(DisableAll(c, DEFAULT_ORDER), DEFAULT_ORDER,
       [id \in EffectIds |->
          Params(id \in WetIds,
                 IF id \in WetIds THEN rand(RandomWetMin[id], RandomWetMax[id], draw) ELSE 0,
                 TRUE, id \in selectedEffects,
                 [n \in RandomizedNames(id) |->
                    IF <<id, n>> \in RoundedParams
                    THEN Round(rand(RandomMin[id][n], RandomMax[id][n], draw))
                    ELSE rand(RandomMin[id][n], RandomMax[id][n], draw)])])

\* reset
reset(c) ==
  SetEffects(c, DEFAULT_ORDER,
    [id \in EffectIds |->
       Params(id \in WetIds, IF id \in WetIds THEN DefaultWet[id] ELSE 0, TRUE, FALSE,
              FactoryParams[id])])

\* every parameter of the unit that has a range in RANDOM_RANGES is inside it
WithinRanges(wet, params, id) ==
  /\ id \in WetIds => (RandomWetMin[id] <= wet[id] /\ wet[id] <= RandomWetMax[id])
  /\ \A n \in DOMAIN RandomMin[id] :
        RandomMin[id][n] <= params[id][n] /\ params[id][n] <= RandomMax[id][n]

\* what is remembered of the chain as a call found it: the units that were
\* enabled and the units that had a parameter outside its range
NoBefore == [enabled |-> {}, offRange |-> {}]

Before ==
  [enabled |-> {id \in EffectIds : effectEnabled[id]},
   offRange |-> {id \in EffectIds : ~WithinRanges(effectWet, effectParams, id)}]

\* the outcome of a run of randomize: the enabled units and all parameters
Outcome(c) == [enabled |-> {id \in EffectIds : c.enabled[id]}, wet |-> c.wet,
               params |-> c.params]

NoOutcome == [enabled |-> {}, wet |-> [id \in WetIds |-> 0], params |-> FactoryParams]

NoFx == [op |-> "none", arg |-> <<>>, changeCalls |-> 0, orderCalls |-> <<>>,
         saved |-> FALSE, before |-> NoBefore, first |-> NoOutcome,
         second |-> NoOutcome]

\* the constructor of the chain, then the connections the engine's constructor
\* makes to and from it
FxInit(stored) ==
  /\ localStorage = stored
  /\ order = loadOrder(stored)
  /\ effectEnabled = [id \in EffectIds |-> FALSE]
  /\ effectWet = [id \in WetIds |-> 0]
  /\ effectParams = FactoryParams
  /\ graph = rewireChain({}, loadOrder(stored), [id \in EffectIds |-> FALSE])
               \cup {<<"masterVolume", "input">>, <<"output", "destination">>}
  /\ lastFx = NoFx
  /\ rewireQueue = <<>>
  /\ pathBefore = <<>>
  /\ rendered = <<>>

\* the keys of the computer keyboard: two that play a note, one that does
\* not, and Shift
KeyCodes == {"KeyQ", "Digit2", "Enter", "ShiftLeft"}

\* KeyboardEvent.key of a key of the US layout, by the state of Shift
eventKey(code, shift) ==
  CASE code = "KeyQ" -> IF shift THEN "Q" ELSE "q"
    [] code = "Digit2" -> IF shift THEN "@" ELSE "2"
    [] code = "Enter" -> "Enter"
    [] OTHER -> "Shift"

\* String.prototype.toLowerCase, for the strings above
toLowerCase(key) ==
  CASE key = "Q" -> "q"
    [] key = "Enter" -> "enter"
    [] key = "Shift" -> "shift"
    [] OTHER -> key

\* the note that the key map gives a key of the keyboard
NoteOfCode(code) == keyMap[toLowerCase(eventKey(code, FALSE))]

NoKey == [type |-> "none", code |-> "none", repeat |-> FALSE]

KeysInit ==
  /\ keysDown = {}
  /\ lastKey = NoKey

\* EffectsPanel.draggedEffect when nothing is dragged
NoEffect == "none"

\* the fields of the panel for drag and drop, and the rack that
\* renderEffectModules makes of a chain with no unit enabled
DragInit ==
  /\ draggedEffect = NoEffect
  /\ dropTargetIndex = -1
  /\ modules = <<>>
  /\ dragPhase = "idle"

(***************************************************************************)
(* midi-handler.ts: the devices                                            *)
(***************************************************************************)
\* how many MIDI keyboards there are
MaxDevices == 2

\* how many times start is called
MaxStarts == 1

\* the ids of the ports
DeviceIds == 1..MaxDevices

\* null, for activeInput and selectedDeviceId
NoDevice == 0

NoMidi == [op |-> "none", arg |-> NoDevice, active |-> NoDevice, selected |-> NoDevice,
           sounding |-> FALSE]

\* the fields of a new MIDIHandler; no keyboard is plugged in
DevInit ==
  /\ midiAccess = FALSE
  /\ midiStarting = 0
  /\ midiStarts = 0
  /\ midiInputs = <<>>
  /\ portState = [d \in DeviceIds |-> "disconnected"]
  /\ onmidimessage = {}
  /\ activeInput = NoDevice
  /\ selectedDeviceId = NoDevice
  /\ lastMidi = NoMidi

\* the handler as the methods see it: released tells that allNotesOff was called
Handler == [active |-> activeInput, selected |-> selectedDeviceId,
            installed |-> onmidimessage, released |-> FALSE]

\* a selectDevice that leaves the handler on the input it had
selectDevice_keepsListening(h, access, inputs, ports, deviceId) ==
  IF ~access THEN h
  ELSE LET h1 == IF h.active /= NoDevice
                 THEN [h EXCEPT !.released = TRUE, !.active = NoDevice]
                 ELSE h
           h2 == [h1 EXCEPT !.selected = deviceId]
       IN IF deviceId /= NoDevice /\ deviceId \in Range(inputs)
             /\ ports[deviceId] = "connected"
          THEN [h2 EXCEPT !.installed = @ \cup {deviceId}, !.active = deviceId]
          ELSE h2

\* selectDevice(deviceId), for the inputs and the port states of the browser
selectDevice(h, access, inputs, ports, deviceId) ==
  IF ~access THEN h
  ELSE LET h1 == IF h.active /= NoDevice
                 THEN [h EXCEPT !.installed = @ \ {h.active}, !.released = TRUE,
                                !.active = NoDevice]
                 ELSE h
           h2 == [h1 EXCEPT !.selected = deviceId]
       IN IF deviceId /= NoDevice /\ deviceId \in Range(inputs)
             /\ ports[deviceId] = "connected"
          THEN [h2 EXCEPT !.installed = @ \cup {deviceId}, !.active = deviceId]
          ELSE h2

\* handleStateChange for an event of the port of a device
handleStateChange(h, access, inputs, ports, port) ==
  IF ports[port] = "connected"
  THEN IF (port = h.selected /\ h.active = NoDevice) \/ h.selected = NoDevice
       THEN selectDevice(h, access, inputs, ports, port)
       ELSE h
  ELSE IF h.active /= NoDevice /\ h.active = port
       THEN [h EXCEPT !.installed = @ \ {h.active}, !.active = NoDevice,
                      !.released = TRUE]
       ELSE h

\* the handler and the engine after a method or an event; the history keeps
\* what the handler listened to before and whether a note was sounding
CommitMidi(h, op, arg, maxOps) ==
  /\ activeInput' = h.active
  /\ selectedDeviceId' = h.selected
  /\ onmidimessage' = h.installed
  /\ lastMidi' = [op |-> op, arg |-> arg, active |-> activeInput,
                  selected |-> selectedDeviceId, sounding |-> activeVoices /= <<>>]
  /\ IF h.released THEN allNotesOff ELSE UNCHANGED synthVars
  /\ SpendRelease(maxOps)
  /\ UNCHANGED <<inputVars, histVars, fxVars, clockVars, waveVars, uiVars, keysVars,
                 dragVars, nameVars>>

\* start() up to the await of requestMIDIAccess
MidiStart ==
  /\ midiStarts < MaxStarts
  /\ midiStarts' = midiStarts + 1
  /\ midiStarting' = midiStarting + 1
  /\ UNCHANGED <<midiAccess, midiInputs, portState, onmidimessage, activeInput,
                 selectedDeviceId, lastMidi>>
  /\ UNCHANGED <<synthVars, inputVars, histVars, boundVars, fxVars, clockVars, waveVars,
                 uiVars, keysVars, dragVars, nameVars>>

\* start() after the access was granted: the first device is selected when
\* none is
MidiAccessGranted(maxOps) ==
  /\ midiStarting > 0
  /\ midiStarting' = midiStarting - 1
  /\ midiAccess' = TRUE
  /\ CommitMidi(IF selectedDeviceId = NoDevice /\ midiInputs /= <<>>
                THEN selectDevice(Handler, TRUE, midiInputs, portState, midiInputs[1])
                ELSE Handler,
                "start", NoDevice, maxOps)
  /\ UNCHANGED <<midiStarts, midiInputs, portState>>

\* start() after the access was refused
MidiAccessDenied ==
  /\ midiStarting > 0
  /\ midiStarting' = midiStarting - 1
  /\ UNCHANGED <<midiAccess, midiStarts, midiInputs, portState, onmidimessage, activeInput,
                 selectedDeviceId, lastMidi>>
  /\ UNCHANGED <<synthVars, inputVars, histVars, boundVars, fxVars, clockVars, waveVars,
                 uiVars, keysVars, dragVars, nameVars>>

\* the device selector of the page, with a device or with none
SelectDevice(maxOps) ==
  \E deviceId \in DeviceIds \cup {NoDevice} :
     /\ CommitMidi(selectDevice(Handler, midiAccess, midiInputs, portState, deviceId),
                   "selectDevice", deviceId, maxOps)
     /\ UNCHANGED <<midiAccess, midiStarting, midiStarts, midiInputs, portState>>

\* a keyboard is plugged in; onstatechange is installed once there is access
Connect(maxOps) ==
  \E port \in DeviceIds :
     /\ portState[port] = "disconnected"
     /\ portState' = [portState EXCEPT ![port] = "connected"]
     /\ midiInputs' = IF port \in Range(midiInputs) THEN midiInputs
                      ELSE Append(midiInputs, port)
     /\ CommitMidi(IF midiAccess
                   THEN handleStateChange(Handler, TRUE, midiInputs', portState', port)
                   ELSE Handler,
                   "connect", port, maxOps)
     /\ UNCHANGED <<midiAccess, midiStarting, midiStarts>>

\* a keyboard is unplugged; the browser keeps its port in the map or drops it
Disconnect(maxOps) ==
  \E port \in DeviceIds, kept \in BOOLEAN :
     /\ portState[port] = "connected"
     /\ portState' = [portState EXCEPT ![port] = "disconnected"]
     /\ midiInputs' = IF kept THEN midiInputs
                      ELSE SelectSeq(midiInputs, LAMBDA d : d /= port)
     /\ CommitMidi(IF midiAccess
                   THEN handleStateChange(Handler, TRUE, midiInputs', portState', port)
                   ELSE Handler,
                   "disconnect", port, maxOps)
     /\ UNCHANGED <<midiAccess, midiStarting, midiStarts>>

\* a message of a keyboard whose port has the handler installed
DeviceMessage(maxOps) ==
  /\ \E port \in onmidimessage : portState[port] = "connected"
  /\ MidiMessage(maxOps)

\* how many events of the devices that release voices a run makes
DeviceOps == 1

DevicesNext ==
  \/ StartCall
  \/ StartResume
  \/ LoadFirstDay
  \/ MidiStart
  \/ MidiAccessGranted(DeviceOps)
  \/ MidiAccessDenied
  \/ SelectDevice(DeviceOps)
  \/ Connect(DeviceOps)
  \/ Disconnect(DeviceOps)
  \/ DeviceMessage(DeviceOps)

(***************************************************************************)
(* The note name as the key that joins a note-on and its note-off          *)
(***************************************************************************)
\* the largest note number of a MIDI message
MaxMidiNote == 127

NoMessage == [number |-> -1, name |-> ""]

NamesInit ==
  /\ noteOnMsg = NoMessage
  /\ noteOffMsg = NoMessage

notNames == <<synthVars, histVars, boundVars, inputVars, fxVars, clockVars, waveVars,
              uiVars, keysVars, dragVars, devVars>>

\* handleMIDIMessage names the note of a note-on message
NameOfNoteOn ==
  \E noteNumber \in 0..MaxMidiNote :
     /\ noteOnMsg = NoMessage
     /\ noteOnMsg' = [number |-> noteNumber, name |-> midiToNoteName(noteNumber)]
     /\ UNCHANGED <<noteOffMsg, notNames>>

\* handleMIDIMessage names the note of the note-off message that follows
NameOfNoteOff ==
  \E noteNumber \in 0..MaxMidiNote :
     /\ noteOnMsg /= NoMessage
     /\ noteOffMsg = NoMessage
     /\ noteOffMsg' = [number |-> noteNumber, name |-> midiToNoteName(noteNumber)]
     /\ UNCHANGED <<noteOnMsg, notNames>>

NamesNext ==
  \/ NameOfNoteOn
  \/ NameOfNoteOff

ExtInit == KeysInit /\ DragInit /\ DevInit /\ NamesInit

\* a key goes down, or repeats while it is held; no input field has the focus
PhysKeyDown ==
  \E code \in KeyCodes :
     /\ keysDown' = keysDown \cup {code}
     /\ handleKeyDown(toLowerCase(eventKey(code, "ShiftLeft" \in keysDown')), FALSE)
     /\ lastKey' = [type |-> "down", code |-> code, repeat |-> code \in keysDown]
     /\ UNCHANGED <<kbEnabled, midiEnabled, activeNotes, midiHeld, lastCall, boundVars,
                    fxVars, clockVars, waveVars, uiVars, dragVars, devVars, nameVars>>

\* a key that is held goes up
PhysKeyUp(maxOps) ==
  \E code \in keysDown :
     /\ keysDown' = keysDown \ {code}
     /\ handleKeyUp(toLowerCase(eventKey(code, "ShiftLeft" \in keysDown')))
     /\ lastKey' = [type |-> "up", code |-> code, repeat |-> FALSE]
     /\ UNCHANGED <<kbEnabled, midiEnabled, activeNotes, midiHeld, histVars, fxVars,
                    clockVars, waveVars, uiVars, dragVars, devVars, nameVars>>
     /\ SpendRelease(maxOps)

\* how many key releases that release voices a run at the keyboard makes
KeyOps == 2

KeysNext ==
  \/ StartCall
  \/ StartResume
  \/ LoadFirstDay
  \/ PhysKeyDown
  \/ PhysKeyUp(KeyOps)

Init == SynthInit /\ InputInit /\ FxInit(Stored("absent", <<>>)) /\ WaveInit /\ UiInit /\ ExtInit

SpecKeys == Init /\ [][KeysNext]_vars

SpecDevices == Init /\ [][DevicesNext]_vars

SpecNames == Init /\ [][NamesNext]_vars

\* how many input events that release voices a run of the input handlers makes
InputOps == 1

InputNext ==
  \/ StartCall
  \/ StartResume
  \/ LoadFirstDay
  \/ KeyDown
  \/ KeyUp(InputOps)
  \/ KeyboardSetEnabled(InputOps)
  \/ MidiMessage(InputOps)
  \/ MidiSetEnabled(InputOps)
  \/ PianoPress
  \/ PianoRelease(InputOps)

SpecInput == Init /\ [][InputNext]_vars

Next ==
  \/ StartCall
  \/ StartResume
  \/ SetWavetableCall(MaxOps)
  \/ ClearWavetableCall(MaxOps)
  \/ SetOscillatorLevelCall(MaxOps)
  \/ NoteOnCall(MaxNotes)
  \/ NoteOffCall(MaxOps, MaxNotes)
  \/ AllNotesOffCall(MaxOps)

Spec == Init /\ [][Next]_vars

\* the engine configured through all of its public methods, by callers that
\* pass wavetables of any length
ContractNext ==
  \/ StartCall
  \/ StartResume
  \/ SetWavetableAnyLength(MaxOps)
  \/ ClearWavetableCall(MaxOps)
  \/ SetOscillatorLevelCall(MaxOps)
  \/ SetVolumeCall(MaxOps)
  \/ NoteOnCall(MaxNotes)

SpecContract == Init /\ [][ContractNext]_vars

\* advances of the audio clock between two calls, in milliseconds: less and
\* more than the scheduling offset
TickInputs == {5, 20}

\* the audio clock advances
Tick ==
  \E step \in TickInputs :
     /\ now + step <= MaxTime
     /\ now' = now + step
     /\ UNCHANGED <<synthVars, histVars, boundVars, inputVars, fxVars, waveVars, uiVars, extVars>>

\* how many releasing calls a run with the clock makes
ClockOps == 2

\* the engine playing notes while the audio clock runs
ClockNext ==
  \/ StartCall
  \/ StartResume
  \/ LoadFirstDay
  \/ NoteOnCall(MaxNotes)
  \/ NoteOffCall(ClockOps, MaxNotes)
  \/ AllNotesOffCall(ClockOps)
  \/ Tick

SpecClock == Init /\ [][ClockNext]_vars

\* the size of the wavetables of these runs
TableSize == 2^LogTableSize

\* all sequences of 1..n elements of S
SeqsUpTo(S, n) == UNION {[1..k -> S] : k \in 1..n}

\* a series of n readings that rise by d from v on
Rising(v, d, n) == Float32Array([i \in 1..n |-> v + d * (i - 1)])

\* the readings of a day, in mg/dL: no reading, short series of some values,
\* and series longer than a wavetable that are flat, rising, or neither
SeriesInputs ==
  {<<>>}
  \cup SeqsUpTo({70, 100, 180}, MaxSeries)
  \cup {[i \in 1..(TableSize + 3) |-> 112],
        Rising(40, 30, TableSize + 3),
        [i \in 1..(TableSize + 1) |-> IF i % 3 = 0 THEN 250 ELSE 90 + i]}

\* arrays passed to resampleToWavetableSize: short ones of some values between
\* -1 and 1, and longer ones that rise or that rise and fall
ResampleInputs ==
  {<<>>}
  \cup SeqsUpTo({-ONE, -300, ONE}, MaxSeries)
  \cup {Rising(-ONE, 150, TableSize + 3),
        Rising(-ONE, (2 * ONE) \div TableSize, TableSize),
        [i \in 1..(TableSize + 2) |-> IF i % 2 = 0 THEN ONE ELSE -ONE + i]}

\* the target sizes asked for
TargetSizes == {1, 3, TableSize}

\* arrays passed to computePartialsFromWavetable, of 0, 1, 2, 3, 4, 6 and 8
\* samples: silence, a constant, an impulse, a step, a ramp, one cycle of a
\* sine, two cycles of a sine, and some that are neither
TableInputs ==
  {<<>>, <<0>>, <<ONE>>,
   <<0, 0>>, <<ONE, -ONE>>, <<500, 500>>, <<300, -700>>,
   <<0, 0, 500>>, <<ONE, 0, -ONE>>,
   <<0, 0, 0, 0>>, <<0, ONE, 0, -ONE>>, <<ONE, ONE, -ONE, -ONE>>,
   <<700, 700, 700, 700>>, <<ONE, -ONE, ONE, -ONE>>, <<-900, 200, 640, 50>>,
   <<0, 300, 600, -600, -300, 0>>,
   Zeros(8), <<ONE, 0, 0, 0, 0, 0, 0, 0>>,
   <<0, 724, ONE, 724, 0, -724, -ONE, -724>>,
   <<0, ONE, 0, -ONE, 0, ONE, 0, -ONE>>,
   <<ONE, ONE, ONE, ONE, -ONE, -ONE, -ONE, -ONE>>,
   Rising(-ONE, 256, 8),
   <<310, -820, 95, 1000, -447, 12, -633, 701>>}

\* the numbers of partials asked for
HarmonicCounts == {0, 1, 8}

\* a record of a call of a function of wavetable.ts
WaveCall(op, values, size, out, reads, result) ==
  [op |-> op, values |-> values, size |-> size, out |-> out, reads |-> reads,
   threw |-> result.threw, magnitudes |-> result.magnitudes,
   partials |-> result.partials]

\* the call made no transform
NoResult == [threw |-> FALSE, magnitudes |-> <<>>, partials |-> <<>>]

\* the twiddle factors that are cached now
Cache == [size |-> twiddleSize, factors |-> twiddleFactors]

NormalizeCall ==
  \E values \in SeriesInputs :
     /\ lastWave' = WaveCall("normalize", values, 0, normalizeGlucoseValues(values),
                             {}, NoResult)
     /\ UNCHANGED <<twiddleSize, twiddleFactors, synthVars, histVars, boundVars,
                    inputVars, fxVars, clockVars, uiVars, extVars>>

ResampleCall ==
  \E values \in ResampleInputs, targetSize \in TargetSizes :
     /\ lastWave' = WaveCall("resample", values, targetSize,
                             resampleToWavetableSize(values, targetSize),
                             resampleReads(values, targetSize), NoResult)
     /\ UNCHANGED <<twiddleSize, twiddleFactors, synthVars, histVars, boundVars,
                    inputVars, fxVars, clockVars, uiVars, extVars>>

ComputePartialsCall ==
  \E wavetable \in TableInputs, numPartials \in HarmonicCounts :
     LET result == fft(wavetable, numPartials, Cache)
     IN /\ lastWave' = WaveCall("computePartials", wavetable, numPartials, <<>>, {},
                                result)
        /\ twiddleSize' = result.cache.size
        /\ twiddleFactors' = result.cache.factors
        /\ UNCHANGED <<synthVars, histVars, boundVars, inputVars, fxVars, clockVars, uiVars, extVars>>

\* a day is loaded: its wavetable is generated and, when it is given to a
\* layer, its partials are computed
GenerateCall ==
  \E values \in SeriesInputs :
     LET wavetable == generateWavetable(values, TableSize)
         result == fft(wavetable, LoadPartials, Cache)
     IN /\ lastWave' = WaveCall("generate", values, LoadPartials, wavetable, {}, result)
        /\ twiddleSize' = result.cache.size
        /\ twiddleFactors' = result.cache.factors
        /\ UNCHANGED <<synthVars, histVars, boundVars, inputVars, fxVars, clockVars, uiVars, extVars>>

WaveNext ==
  \/ NormalizeCall
  \/ ResampleCall
  \/ ComputePartialsCall
  \/ GenerateCall

SpecWave == Init /\ [][WaveNext]_vars

notUi == <<synthVars, histVars, boundVars, inputVars, fxVars, clockVars, waveVars, extVars>>

\* the mousedown listener of a knob
knobMouseDown(knob, clientY) ==
  LET c == knob[1]
  IN /\ activeKnob' = [activeKnob EXCEPT ![c] = knob]
     /\ startY' = [startY EXCEPT ![c] = clientY]
     /\ startValue' = [startValue EXCEPT ![c] = knobValue[knob]]
     /\ UNCHANGED <<knobValue, pendingUpdate, updateScheduled, frameCallbacks,
                    committed, frameCommits, moved, frames>>

\* the button goes down on a knob; the mouseup of an earlier press is not
\* delivered when the button was released outside the window
MouseDown ==
  \E knob \in KnobIds, clientY \in 0..MaxY :
     /\ presses < MaxPresses
     /\ presses' = presses + 1
     /\ knobMouseDown(knob, clientY)
     /\ UNCHANGED notUi

\* the value that a move to clientY gives the dragged knob of panel c
newValue(c, clientY) == Clamp(0, KnobMax, startValue[c] + (startY[c] - clientY))

\* a move that keeps the update that is pending and drops the new one
pendingAfterMove_keepFirst(pending, knob, value) ==
  IF pending /= NoUpdate THEN pending ELSE [knob |-> knob, value |-> value]

\* this.pendingUpdate = () => onChange(newValue)
pendingAfterMove(pending, knob, value) == [knob |-> knob, value |-> value]

\* the panels whose handleMouseMove does something: those with a dragged knob
Dragging == {c \in Panels : activeKnob[c] /= NoKnob}

\* the panels of a set in the order in which their listeners were added to
\* the document
RECURSIVE InOrder(_)
InOrder(S) ==
  IF S = {} THEN <<>>
  ELSE IF "synth" \in S THEN <<"synth">> \o InOrder(S \ {"synth"})
  ELSE LET c == CHOOSE d \in S : TRUE IN <<c>> \o InOrder(S \ {c})

\* a mousemove on the document: handleMouseMove of both panels
handleMouseMove(clientY) ==
  /\ knobValue' = [k \in KnobIds |->
                     IF activeKnob[k[1]] = k THEN newValue(k[1], clientY)
                     ELSE knobValue[k]]
  /\ pendingUpdate' = [c \in Panels |->
                         IF c \in Dragging
                         THEN pendingAfterMove(pendingUpdate[c], activeKnob[c],
                                               newValue(c, clientY))
                         ELSE pendingUpdate[c]]
  /\ updateScheduled' = [c \in Panels |-> updateScheduled[c] \/ c \in Dragging]
  /\ frameCallbacks' =
        frameCallbacks \o InOrder({c \in Dragging : ~updateScheduled[c]})
  /\ moved' = [c \in Panels |->
                 IF c \in Dragging
                 THEN Append(moved[c], [knob |-> activeKnob[c],
                                        value |-> newValue(c, clientY)])
                 ELSE moved[c]]
  /\ UNCHANGED <<activeKnob, startY, startValue, committed, frameCommits, frames>>

MouseMove ==
  \E clientY \in 0..MaxY :
     /\ \A c \in Panels : Len(moved[c]) < MaxMoves
     /\ handleMouseMove(clientY)
     /\ UNCHANGED <<presses, notUi>>

\* a mouseup on the document: handleMouseUp of both panels
handleMouseUp ==
  /\ activeKnob' = [c \in Panels |-> NoKnob]
  /\ pendingUpdate' = [c \in Panels |-> NoUpdate]
  /\ UNCHANGED <<startY, startValue, knobValue, updateScheduled, frameCallbacks,
                 committed, frameCommits, moved, frames>>

MouseUp ==
  /\ \E c \in Panels : activeKnob[c] /= NoKnob
  /\ handleMouseUp
  /\ UNCHANGED <<presses, notUi>>

\* the callbacks given to requestAnimationFrame, run one after the other on
\* st = [pending, scheduled, committed, commits]; a commit is recorded with
\* the values of the moves that came before it
RECURSIVE RunCallbacks(_, _)
RunCallbacks(callbacks, st) ==
  IF callbacks = <<>> THEN st
  ELSE LET c == Head(callbacks)
           update == st.pending[c]
           ran == IF update /= NoUpdate
                  THEN [st EXCEPT !.committed[update.knob] = update.value,
                                  !.commits = Append(@, [panel |-> c,
                                                         knob |-> update.knob,
                                                         value |-> update.value,
                                                         moves |-> moved[c]]),
                                  !.pending[c] = NoUpdate]
                  ELSE st
       IN RunCallbacks(Tail(callbacks), [ran EXCEPT !.scheduled[c] = FALSE])

\* an animation frame: the browser runs the callbacks it was given
AnimationFrame ==
  /\ frames < MaxFrames
  /\ LET st == RunCallbacks(frameCallbacks,
                            [pending |-> pendingUpdate, scheduled |-> updateScheduled,
                             committed |-> committed, commits |-> <<>>])
     IN /\ pendingUpdate' = st.pending
        /\ updateScheduled' = st.scheduled
        /\ committed' = st.committed
        /\ frameCommits' = st.commits
  /\ frameCallbacks' = <<>>
  /\ moved' = [c \in Panels |-> <<>>]
  /\ frames' = frames + 1
  /\ UNCHANGED <<activeKnob, startY, startValue, knobValue, presses>>
  /\ UNCHANGED notUi

UiNext ==
  \/ MouseDown
  \/ MouseMove
  \/ MouseUp
  \/ AnimationFrame

SpecUi == Init /\ [][UiNext]_vars

\* the same engine with V + 1 note identifiers, enough to exhaust a pool
PoolNotes == MAX_VOICES + 1

PoolNext ==
  \/ StartCall
  \/ StartResume
  \/ SetWavetableCall(PoolOps)
  \/ ClearWavetableCall(PoolOps)
  \/ SetOscillatorLevelCall(PoolOps)
  \/ NoteOnCall(PoolNotes)
  \/ NoteOffCall(PoolOps, PoolNotes)
  \/ AllNotesOffCall(PoolOps)

SpecPool == Init /\ [][PoolNext]_vars

(***************************************************************************)
(* The effects chain driven through its public methods                     *)
(***************************************************************************)
\* how many pairs of neighbours in the order a caller swaps
MaxSwap == 1

\* how many of the units a caller enables, disables and sets
MaxFx == 2

\* how many calls of randomize and reset one run makes
MaxFxOps == 1

\* the list with the elements at positions i and i + 1 exchanged
Swap(ord, i) ==
  [k \in 1..Len(ord) |-> IF k = i THEN ord[i + 1] ELSE IF k = i + 1 THEN ord[i] ELSE ord[k]]

Reverse(ord) == [k \in 1..Len(ord) |-> ord[Len(ord) + 1 - k]]

\* lists a caller passes to reorder: full permutations, and lists that are too
\* short, too long, have an id twice, or have an id that is no unit
ReorderInputs ==
  {Swap(order, i + 1) : i \in 1..MaxSwap}
  \cup {order, Tail(order), Append(order, order[1]), [order EXCEPT ![2] = order[1]],
        [order EXCEPT ![1] = "unknown"]}

\* ids a caller passes: units that follow the first of the default order, one
\* of them with a wet parameter, and an id that is no unit
FxInputs == {DEFAULT_ORDER[i + 1] : i \in 1..MaxFx} \cup {"unknown"}

\* parameter objects a caller passes for a unit
ParamInputs ==
  {Params(hasWet, 80, hasEnabled, enabled, NoValues) :
     hasWet \in BOOLEAN, hasEnabled \in BOOLEAN, enabled \in BOOLEAN}

\* positions of a knob of the effects panel: its maximum
RawInputs == {100}

\* the parameters of a unit that have a knob in the effects panel
Knobs(effectId) ==
  (RandomizedNames(effectId) \ (IF effectId = "autofilter" THEN {"octaves"} ELSE {}))
  \cup (IF effectId \in WetIds THEN {"wet"} ELSE {})

\* the value updateEffectParameter computes from the position of a knob, in
\* thousandths
KnobValue(effectId, param, rawValue) ==
  CASE param = "threshold" -> rawValue * 600 - 60000
    [] param = "ratio" -> rawValue * 200
    [] param \in {"low", "mid", "high"} -> (rawValue - 50) * 1000
    [] param = "bits" -> Round((rawValue * 1000) \div 6)
    [] param = "baseFrequency" -> rawValue * 10000
    [] param = "octaves" ->
         IF effectId = "autowah" THEN Round(rawValue * 100) ELSE Round(rawValue * 1000)
    [] param = "frequency" ->
         CASE effectId \in {"tremolo", "vibrato"} -> rawValue * 200
           [] effectId = "freqshift" -> rawValue * 10000 - 500000
           [] OTHER -> rawValue * 100
    [] param = "pitch" -> Round(rawValue * 240 - 12000)
    [] param = "decay" -> rawValue * 50
    [] OTHER -> rawValue * 10

\* EffectsPanel.updateEffectParameter: the parameter object passed to the
\* setter of the unit for a knob at rawValue
updateEffectParameter(effectId, param, rawValue) ==
  IF param = "wet"
  THEN Params(TRUE, rawValue, FALSE, FALSE, NoValues)
  ELSE Params(FALSE, 0, FALSE, FALSE,
              [n \in {param} |-> KnobValue(effectId, param, rawValue)])

\* results of the sort with a random comparator
Shuffles == {DEFAULT_ORDER, Reverse(DEFAULT_ORDER)}

\* values of Math.random(), in percent
RandomDraws == {0, 99}

\* values found in the storage when the page loads
StoredInputs ==
  { Stored("absent", <<>>), Stored("text", <<Token("[", "")>>),
    Stringify(Swap(DEFAULT_ORDER, 2)),
    Stringify(Tail(DEFAULT_ORDER)),
    Stringify([DEFAULT_ORDER EXCEPT ![2] = DEFAULT_ORDER[1]]) }

\* the state of the chain and the history after a call; saved tells whether
\* the call wrote to the storage
CommitSaved(c, op, arg, saved) ==
  /\ order' = c.order
  /\ effectEnabled' = c.enabled
  /\ effectWet' = c.wet
  /\ effectParams' = c.params
  /\ graph' = c.graph
  /\ lastFx' = [NoFx EXCEPT !.op = op, !.arg = arg, !.changeCalls = c.changeCalls,
                            !.orderCalls = c.orderCalls,
                            !.saved = saved,
                            !.before = IF op \in {"randomize", "reset"}
                                       THEN Before ELSE NoBefore]

\* the state of the chain and the history after a call that does not save
Commit(c, op, arg) == CommitSaved(c, op, arg, FALSE)

ReorderCall ==
  \E newOrder \in ReorderInputs, storageFails \in BOOLEAN :
     /\ CommitSaved(reorder(Chain, newOrder), "reorder", newOrder,
                    reorderAccepts(newOrder) /\ ~storageFails)
     /\ localStorage' = IF reorderAccepts(newOrder)
                         THEN saveOrder(newOrder, localStorage, storageFails)
                         ELSE localStorage
     /\ UNCHANGED <<synthVars, histVars, boundVars, inputVars, renderVars, clockVars, waveVars, uiVars, extVars>>

SetEnabledCall ==
  \E effectId \in FxInputs, enabled \in BOOLEAN :
     /\ Commit(setEnabled(Chain, effectId, enabled), "setEnabled", <<effectId>>)
     /\ UNCHANGED <<localStorage, synthVars, histVars, boundVars, inputVars, renderVars, clockVars, waveVars, uiVars, extVars>>

SetEffectCall ==
  \E effectId \in FxInputs \cap EffectIds, params \in ParamInputs :
     /\ Commit(setEffect(Chain, effectId, params), "setEffect", <<>>)
     /\ UNCHANGED <<localStorage, synthVars, histVars, boundVars, inputVars, renderVars, clockVars, waveVars, uiVars, extVars>>

\* a knob of the effects panel is turned
KnobCall ==
  \E effectId \in FxInputs \cap EffectIds, rawValue \in RawInputs :
     \E param \in Knobs(effectId) :
        /\ Commit(setEffect(Chain, effectId,
                            updateEffectParameter(effectId, param, rawValue)),
                  "setEffect", <<>>)
        /\ UNCHANGED <<localStorage, synthVars, histVars, boundVars, inputVars, renderVars, clockVars, waveVars, uiVars, extVars>>

RandomizeCall(maxOps) ==
  \E shuffledEffects \in Shuffles, numEffects \in 3..5, draw \in RandomDraws :
     /\ Spend(TRUE, maxOps)
     /\ Commit(randomize(Chain, shuffledEffects, numEffects, draw), "randomize", <<>>)
     /\ UNCHANGED <<localStorage, synthVars, histVars, inputVars, renderVars, clockVars, waveVars, uiVars, extVars>>

ResetCall(maxOps) ==
  /\ Spend(TRUE, maxOps)
  /\ Commit(reset(Chain), "reset", <<>>)
  /\ UNCHANGED <<localStorage, synthVars, histVars, inputVars, renderVars, clockVars, waveVars, uiVars, extVars>>

\* the page loads with any of the stored values
InitFx ==
  /\ SynthInit
  /\ InputInit
  /\ WaveInit
  /\ UiInit
  /\ ExtInit
  /\ \E stored \in StoredInputs : FxInit(stored)

\* getEffectParams(effectId): the values the nodes of the unit hold
getEffectParams(c, effectId) ==
  [wet |-> IF effectId \in WetIds THEN c.wet[effectId] ELSE 0,
   enabled |-> c.enabled[effectId],
   values |-> c.params[effectId]]

\* parameter objects for a setter: with and without wet and enabled, and with
\* one of the other parameters of the unit
SetterInputs(effectId) ==
  ParamInputs \cup {updateEffectParameter(effectId, param, rawValue) :
                      param \in Knobs(effectId), rawValue \in RawInputs}

\* a setter of a unit is called; the history keeps the unit and the parameters
SetParamsCall ==
  \E effectId \in FxInputs \cap EffectIds :
     \E params \in SetterInputs(effectId) :
        /\ Commit(setEffect(Chain, effectId, params), "set", <<effectId, params>>)
        /\ UNCHANGED <<localStorage, synthVars, histVars, boundVars, inputVars, renderVars, clockVars, waveVars, uiVars, extVars>>

SetNext ==
  \/ SetEnabledCall
  \/ SetParamsCall

SpecFxSet == Init /\ [][SetNext]_vars

(***************************************************************************)
(* The effects rack: units added, removed and dragged to a new place       *)
(***************************************************************************)
\* how many of the units the user adds to the rack
MaxRack == 3

RackIds == {DEFAULT_ORDER[i] : i \in 1..MaxRack}

\* Array.prototype.indexOf: counted from 0, -1 when absent
RECURSIVE indexOf(_, _)
indexOf(s, x) ==
  IF s = <<>> THEN -1
  ELSE IF Head(s) = x THEN 0
  ELSE LET rest == indexOf(Tail(s), x) IN IF rest < 0 THEN -1 ELSE rest + 1

\* s.splice(i, 0, x)
splice(s, i, x) == SubSeq(s, 1, i) \o <<x>> \o SubSeq(s, i + 1, Len(s))

\* s.filter(id => id !== x)
without(s, x) == SelectSeq(s, LAMBDA id : id /= x)

getEnabledEffects(c) == SelectSeq(c.order, LAMBDA id : c.enabled[id])

\* renderEffectModules: one new module for each enabled unit, in order
renderEffectModules(c) ==
  LET enabledEffects == getEnabledEffects(c)
  IN [i \in 1..Len(enabledEffects) |-> [id |-> enabledEffects[i], dragging |-> FALSE]]

\* the leaving of the rest alone by the actions of the rack
notRack == <<synthVars, histVars, boundVars, inputVars, renderVars, clockVars, waveVars,
             uiVars, keysVars, devVars, nameVars>>

\* addEffect and removeEffect: the setter of the unit, then the rack is made anew
setEffectEnabled(effectId, enabled) ==
  LET c == setEffect(Chain, effectId, Params(FALSE, 0, TRUE, enabled, NoValues))
  IN /\ Commit(c, "setEffect", <<>>)
     /\ modules' = renderEffectModules(c)
     /\ UNCHANGED <<draggedEffect, dropTargetIndex, dragPhase, localStorage, notRack>>

\* a unit is chosen in the dropdown, which lists the disabled units
AddEffect ==
  \E effectId \in RackIds :
     /\ dragPhase = "idle"
     /\ ~effectEnabled[effectId]
     /\ setEffectEnabled(effectId, TRUE)

\* the remove button of a module
RemoveEffect ==
  \E i \in 1..Len(modules) :
     /\ dragPhase = "idle"
     /\ setEffectEnabled(modules[i].id, FALSE)

\* the dragstart listener of a module
DragStart ==
  \E i \in 1..Len(modules) :
     /\ dragPhase = "idle"
     /\ dragPhase' = "dragging"
     /\ draggedEffect' = modules[i].id
     /\ modules' = [modules EXCEPT ![i].dragging = TRUE]
     /\ UNCHANGED <<dropTargetIndex, fxVars, notRack>>

\* the modules stand side by side, each 2 wide: the middle of the module at
\* place p (from 1) of the rack
Midpoint(p) == 2 * p - 1

\* the middles of the modules that querySelectorAll('.effect-module:not(.dragging)')
\* gives, in order
Midpoints(mods) ==
  LET places == SelectSeq([p \in 1..Len(mods) |-> p], LAMBDA p : ~mods[p].dragging)
  IN [i \in 1..Len(places) |-> Midpoint(places[i])]

\* the loop of updateDropIndicator from index i on
RECURSIVE findInsertIndex(_, _, _)
findInsertIndex(midpoints, clientX, i) ==
  IF i >= Len(midpoints) THEN Len(midpoints)
  ELSE IF clientX < midpoints[i + 1] THEN i
  ELSE findInsertIndex(midpoints, clientX, i + 1)

\* updateDropIndicator(clientX): the new dropTargetIndex
updateDropIndicator(clientX) ==
  LET midpoints == Midpoints(modules)
      insertIndex == findInsertIndex(midpoints, clientX, 0)
      draggedIndex == indexOf(getEnabledEffects(Chain), draggedEffect)
  IN IF Len(midpoints) = 0 THEN dropTargetIndex
     ELSE IF insertIndex = draggedIndex \/ insertIndex = draggedIndex + 1 THEN -1
     ELSE insertIndex

\* the dragover listener of the rack
DragOver ==
  \E clientX \in 0..(2 * Len(modules)) :
     /\ dragPhase = "dragging"
     /\ dropTargetIndex' = IF draggedEffect = NoEffect THEN dropTargetIndex
                           ELSE updateDropIndicator(clientX)
     /\ UNCHANGED <<draggedEffect, modules, dragPhase, fxVars, notRack>>

\* performDrop: the order it passes to reorder
performDrop(c, dragged, dropTarget) ==
  LET enabledEffects == getEnabledEffects(c)
      draggedIndex == indexOf(enabledEffects, dragged)
      targetIndex == IF draggedIndex < dropTarget THEN dropTarget - 1 ELSE dropTarget
      newOrder == without(c.order, dragged)
      others == without(enabledEffects, dragged)
  IN IF targetIndex >= Len(enabledEffects) - 1
     THEN IF enabledEffects /= <<>> /\ enabledEffects[Len(enabledEffects)] /= dragged
          THEN splice(newOrder,
                      indexOf(newOrder, enabledEffects[Len(enabledEffects)]) + 1, dragged)
          ELSE Append(newOrder, dragged)
     ELSE IF targetIndex < Len(others)
          THEN splice(newOrder, indexOf(newOrder, others[targetIndex + 1]), dragged)
          ELSE newOrder

\* the drop listener of the rack; the history keeps the enabled units before
\* the drop, the dragged unit, the drop index and the order passed to reorder
Drop ==
  \E storageFails \in BOOLEAN :
     /\ dragPhase = "dragging"
     /\ dragPhase' = "dropped"
     /\ IF draggedEffect = NoEffect \/ dropTargetIndex < 0
        THEN /\ Commit(Chain, "dropIgnored", <<>>)
             /\ UNCHANGED <<localStorage, modules, dropTargetIndex>>
        ELSE LET newOrder == performDrop(Chain, draggedEffect, dropTargetIndex)
                 c == reorder(Chain, newOrder)
             IN /\ CommitSaved(c, "drop",
                               <<getEnabledEffects(Chain), draggedEffect,
                                 dropTargetIndex, newOrder>>,
                               reorderAccepts(newOrder) /\ ~storageFails)
                /\ localStorage' = IF reorderAccepts(newOrder)
                                    THEN saveOrder(newOrder, localStorage, storageFails)
                                    ELSE localStorage
                /\ modules' = IF reorderAccepts(newOrder)
                               THEN renderEffectModules(c) ELSE modules
                /\ dropTargetIndex' = -1
     /\ UNCHANGED <<draggedEffect, notRack>>

\* the dragend listener of the dragged module
DragEnd ==
  /\ dragPhase \in {"dragging", "dropped"}
  /\ dragPhase' = "idle"
  /\ draggedEffect' = NoEffect
  /\ modules' = [i \in 1..Len(modules) |-> [modules[i] EXCEPT !.dragging = FALSE]]
  /\ dropTargetIndex' = -1
  /\ UNCHANGED <<fxVars, notRack>>

DragNext ==
  \/ AddEffect
  \/ RemoveEffect
  \/ DragStart
  \/ DragOver
  \/ Drop
  \/ DragEnd

SpecFxDrag == Init /\ [][DragNext]_vars

FxNext ==
  \/ ReorderCall
  \/ SetEnabledCall
  \/ SetEffectCall
  \/ RandomizeCall(MaxFxOps)
  \/ ResetCall(MaxFxOps)

SpecFx == InitFx /\ [][FxNext]_vars

\* further values found in the storage when the page loads: access denied, an
\* empty string, null, an object, a string, an empty array, a list with an
\* unknown id in place of a known one
StoredFaults ==
  { Stored("denied", <<>>), Stored("text", <<>>),
    Stored("text", <<Token("null", "")>>),
    Stored("text", <<Token("{", ""), Token("}", "")>>),
    Stored("text", <<Token("str", "reverb")>>),
    Stringify(<<>>),
    Stringify([DEFAULT_ORDER EXCEPT ![2] = "flanger"]) }

\* the page is loaded again: the constructor of the chain runs with what the
\* storage holds
ConstructCall ==
  /\ order' = loadOrder(localStorage)
  /\ effectEnabled' = [id \in EffectIds |-> FALSE]
  /\ effectWet' = [id \in WetIds |-> 0]
  /\ effectParams' = FactoryParams
  /\ graph' = rewireChain({}, loadOrder(localStorage), [id \in EffectIds |-> FALSE])
                \cup {<<"masterVolume", "input">>, <<"output", "destination">>}
  /\ lastFx' = [NoFx EXCEPT !.op = "construct"]
  /\ UNCHANGED <<localStorage, synthVars, histVars, boundVars, inputVars, renderVars, clockVars, waveVars, uiVars, extVars>>

\* the page loads with any of the stored values, sound or not
InitStore ==
  /\ SynthInit
  /\ InputInit
  /\ WaveInit
  /\ UiInit
  /\ ExtInit
  /\ \E stored \in StoredInputs \cup StoredFaults : FxInit(stored)

StoreNext ==
  \/ ReorderCall
  \/ SetEnabledCall
  \/ ConstructCall

SpecFxStore == InitStore /\ [][StoreNext]_vars

\* randomize(), and beside it what a second run of randomize() from the same
\* state of the chain gives; each run has its own values of Math.random()
RandomizeRuns(maxOps) ==
  \E shuffled1 \in Shuffles, num1 \in 3..5, draw1 \in RandomDraws :
     \E shuffled2 \in Shuffles, num2 \in 3..5, draw2 \in RandomDraws :
        LET run1 == randomize(Chain, shuffled1, num1, draw1)
            run2 == randomize(Chain, shuffled2, num2, draw2)
        IN /\ Spend(TRUE, maxOps)
           /\ order' = run1.order
           /\ effectEnabled' = run1.enabled
           /\ effectWet' = run1.wet
           /\ effectParams' = run1.params
           /\ graph' = run1.graph
           /\ lastFx' = [NoFx EXCEPT !.op = "randomize",
                                     !.changeCalls = run1.changeCalls,
                                     !.before = Before,
                                     !.first = Outcome(run1),
                                     !.second = Outcome(run2)]
           /\ UNCHANGED <<localStorage, synthVars, histVars, inputVars, renderVars, clockVars, waveVars, uiVars, extVars>>

RunsNext ==
  \/ SetEnabledCall
  \/ RandomizeRuns(MaxFxOps)

SpecFxRuns == Init /\ [][RunsNext]_vars

\* the chain driven from the effects panel: toggles, knobs, randomize, reset
ParamsNext ==
  \/ SetEnabledCall
  \/ SetEffectCall
  \/ KnobCall
  \/ RandomizeCall(MaxFxOps)
  \/ ResetCall(MaxFxOps)

SpecFxParams == Init /\ [][ParamsNext]_vars

(***************************************************************************)
(* The chain rewired call by call while the audio thread renders           *)
(***************************************************************************)
RECURSIVE Walk(_, _, _)
\* the nodes a signal goes through from the node on, for at most fuel hops
Walk(g, node, fuel) ==
  LET next == {e[2] : e \in {d \in g : d[1] = node}}
  IN IF next = {} \/ fuel = 0 THEN <<node>>
     ELSE <<node>> \o Walk(g, CHOOSE n \in next : TRUE, fuel - 1)

\* the path of the signal from the input of the chain
SignalPath(g) == Walk(g, "input", Len(DEFAULT_ORDER) + 2)

\* setEnabled up to its call of rewireChain; the main thread runs one handler
\* at a time
SetEnabledBegin ==
  \E effectId \in FxInputs, enabled \in BOOLEAN :
     /\ rewireQueue = <<>>
     /\ effectId \in DOMAIN effectEnabled
     /\ effectEnabled[effectId] /= enabled
     /\ effectEnabled' = [effectEnabled EXCEPT ![effectId] = enabled]
     /\ rewireQueue' = RewireSteps(order, effectEnabled')
                         \o <<[op |-> "onChange", from |-> "", to |-> ""]>>
     /\ pathBefore' = SignalPath(graph)
     /\ lastFx' = [NoFx EXCEPT !.op = "setEnabled"]
     /\ UNCHANGED <<order, effectWet, effectParams, graph, localStorage, rendered, synthVars, histVars,
                    boundVars, inputVars, clockVars, waveVars, uiVars, extVars>>

\* reorder up to its call of rewireChain
ReorderBegin ==
  \E newOrder \in ReorderInputs, storageFails \in BOOLEAN :
     /\ rewireQueue = <<>>
     /\ reorderAccepts(newOrder)
     /\ order' = newOrder
     /\ rewireQueue' = RewireSteps(newOrder, effectEnabled)
                         \o <<[op |-> IF storageFails THEN "saveFails" ELSE "save",
                                from |-> "", to |-> ""],
                               [op |-> "onOrderChange", from |-> "", to |-> ""]>>
     /\ pathBefore' = SignalPath(graph)
     /\ lastFx' = [NoFx EXCEPT !.op = "reorder", !.arg = newOrder]
     /\ UNCHANGED <<effectEnabled, effectWet, effectParams, graph, localStorage, rendered, synthVars,
                    histVars, boundVars, inputVars, clockVars, waveVars, uiVars, extVars>>

\* the running handler makes its next call: a disconnect or a connect of
\* rewireChain, then saveOrder and the callback
HandlerStep ==
  /\ rewireQueue /= <<>>
  /\ graph' = ApplyStep(graph, Head(rewireQueue))
  /\ localStorage' = IF Head(rewireQueue).op = "save"
                      THEN saveOrder(order, localStorage, FALSE)
                      ELSE localStorage
  /\ lastFx' = CASE Head(rewireQueue).op = "onChange" ->
                       [lastFx EXCEPT !.changeCalls = @ + 1]
                  [] Head(rewireQueue).op = "onOrderChange" ->
                       [lastFx EXCEPT !.orderCalls = Append(@, order)]
                  [] OTHER -> lastFx
  /\ rewireQueue' = Tail(rewireQueue)
  /\ UNCHANGED <<order, effectEnabled, effectWet, effectParams, pathBefore, rendered, synthVars,
                 histVars, boundVars, inputVars, clockVars, waveVars, uiVars, extVars>>

\* the audio thread renders a quantum through the graph as it is now
Render ==
  /\ rendered' = SignalPath(graph)
  /\ UNCHANGED <<chainVars, lastFx, rewireQueue, pathBefore, synthVars, histVars,
                 boundVars, inputVars, clockVars, waveVars, uiVars, extVars>>

RenderNext ==
  \/ SetEnabledBegin
  \/ ReorderBegin
  \/ HandlerStep
  \/ Render

SpecFxRender == Init /\ [][RenderNext]_vars

(***************************************************************************)
(* Voice pools                                                             *)
(***************************************************************************)
\* how often the voice is recorded in the map of sounding notes
Occurrences(m, v) ==
  Cardinality({<<i, j>> \in (1..Len(m)) \X (1..NUM_OSCILLATORS) :
                 j <= Len(m[i].voices) /\ m[i].voices[j] = v})

\* how often the voice is in an available set
AvailableCount(v) ==
  Cardinality({<<o, i>> \in Layers \X (1..MAX_VOICES) :
                 i <= Len(availableVoices[o]) /\ availableVoices[o][i] = v})

RECURSIVE SumOver(_, _)
SumOver(f, S) ==
  IF S = {} THEN 0
  ELSE LET x == CHOOSE y \in S : TRUE IN f[x] + SumOver(f, S \ {x})

\* the number of allocations of voices of the layer that are in force
AllocatedCount(m, osc) == SumOver([v \in synths(osc) |-> Occurrences(m, v)], synths(osc))

\* C1: no layer ever has more than V = MAX_VOICES voices allocated, and while
\* all V voices of a layer are allocated no call obtains a voice from it
C1_PoolNeverExceeded ==
  /\ [](\A o \in Layers :
          /\ AllocatedCount(activeVoices, o) <= MAX_VOICES
          /\ Len(availableVoices[o]) + AllocatedCount(activeVoices, o) <= MAX_VOICES)
  /\ [][\A o \in Layers :
          availableVoices[o] = <<>> =>
             \A v \in synths(o) :
                Occurrences(activeVoices', v) <= Occurrences(activeVoices, v)]_vars

\* a noteOn reached the allocation loop while a sounding layer had no voice
\* left, and took none from it
C1_Witness ==
  /\ lastCall.op = "noteOn"
  /\ \E o \in Layers :
        /\ LayerSounds(o)
        /\ availableVoices[o] = <<>>
        /\ AllocatedCount(activeVoices, o) = MAX_VOICES
        /\ \A v \in Range(lastCall.voices) : v \notin synths(o)

\* the entries of the map other than the one of the note
OtherEntries(m, note) == SeqFilterIn(m, {e \in Range(m) : e.note /= note})

\* C2: a noteOff releases and returns to their pools exactly the voices recorded
\* for its note, which are those its noteOn recorded; a noteOff for a note
\* without recorded voices changes nothing
C2_NoteOffReleasesRecorded ==
  [][/\ \A e \in Range(activeVoices) :
          MapHas(activeVoices', e.note) =>
             /\ MapGet(activeVoices', e.note) = e.voices
             /\ \A v \in Range(e.voices) : AvailableCount(v)' = 0
     /\ (lastCall' /= lastCall /\ lastCall'.op = "noteOff") =>
          IF MapHas(activeVoices, lastCall'.note)
          THEN LET released == Range(MapGet(activeVoices, lastCall'.note))
               IN /\ lastCall'.voices = MapGet(activeVoices, lastCall'.note)
                  /\ \A o \in Layers :
                        Range(availableVoices'[o]) =
                          Range(availableVoices[o]) \cup (released \cap synths(o))
                  /\ \A v \in Voices :
                        voiceEnv'[v] = IF v \in released THEN "release" ELSE voiceEnv[v]
                  /\ activeVoices' = OtherEntries(activeVoices, lastCall'.note)
                  /\ UNCHANGED <<isInitialized, startPending, oscWavetable, oscPartials,
                                 oscDayLabel, oscLevel, synthOsc, userVolume,
                                 masterVolume>>
          ELSE UNCHANGED synthVars]_vars

\* a noteOff released the voices of its note after the timbre of one of them had
\* been changed, while another note was sounding
C2_Witness ==
  /\ lastCall.op = "noteOff"
  /\ lastCall.outcome = "released"
  /\ activeVoices /= <<>>
  /\ \E i \in 1..Len(lastCall.voices) :
        /\ lastCall.oscs[i] /= trigOsc[lastCall.voices[i]]
        /\ lastCall.voices[i] \in Range(availableVoices[OwnerOf(lastCall.voices[i])])

\* C3: every voice belongs to exactly one layer and is either in that layer's
\* available set or recorded under exactly one sounding note, never both
C3_VoiceOwnedOnce ==
  \A v \in Voices :
     /\ Cardinality({o \in Layers : v \in synths(o)}) = 1
     /\ AvailableCount(v) + Occurrences(activeVoices, v) = 1
     /\ \A o \in Layers : v \in Range(availableVoices[o]) => o = OwnerOf(v)

\* two notes sound, one of them on two layers, and a voice has been released
C3_Witness ==
  /\ Len(activeVoices) = 2
  /\ \E e \in Range(activeVoices) : Len(e.voices) >= 2
  /\ \E v \in Voices : voiceEnv[v] = "release" /\ AvailableCount(v) = 1

\* the voices recorded under a sounding note
Sounding == {v \in Voices : Occurrences(activeVoices, v) > 0}

\* C10 as stated: a sounding voice keeps the oscillator type and partials it
\* had when it was triggered
C10_SoundingKeepsTimbre ==
  \A v \in Sounding : synthOsc[v] = trigOsc[v]

\* C10: every voice of a layer, sounding or not, has the layer's current
\* timbre: its partials as a custom oscillator, or a sine when it has none
C10_VoicesFollowLayer ==
  \A v \in Voices :
     IF oscPartials[OwnerOf(v)] = <<>>
     THEN synthOsc[v].type = "sine"
     ELSE synthOsc[v] = [type |-> "custom", partials |-> oscPartials[OwnerOf(v)]]

\* a sounding voice whose oscillator is no longer the one it was triggered with
C10_Witness ==
  \E v \in Sounding : synthOsc[v] /= trigOsc[v]

(***************************************************************************)
(* Contract of the engine's methods                                        *)
(***************************************************************************)
\* C11: a setWavetable that fails on a wavetable whose length is no power of
\* two leaves the layer's wavetable, partials and label, the oscillators of
\* the voices and the master gain exactly as they were before the call
C11_ContractViolationNotApplied ==
  [][(lastCall' /= lastCall /\ lastCall'.op = "setWavetable"
        /\ lastCall'.outcome = "threw")
       => UNCHANGED <<oscWavetable, oscPartials, oscDayLabel, synthOsc,
                      masterVolume>>]_vars

\* the layers a noteOn takes a voice from: a wavetable, a level above 0 and
\* at least one available voice
Eligible ==
  {o \in Layers : oscWavetable[o] /= Null /\ oscLevel[o] > 0 /\ availableVoices[o] /= <<>>}

\* the voices of the layer that leave its available set in the step
Taken(o) == {v \in Range(availableVoices[o]) : v \notin Range(availableVoices'[o])}

\* C12: a noteOn on a started engine for a note that is not sounding takes
\* exactly one voice from every layer with a wavetable, a level above 0 and an
\* available voice and none from any other layer, whether or not another
\* layer is exhausted, and records the note if and only if it took a voice
C12_NoteOnTakesOnePerLayer ==
  [][(lastCall' /= lastCall /\ lastCall'.op = "noteOn")
       => /\ \A o \in Layers :
                /\ Cardinality(Taken(o)) = IF o \in Eligible THEN 1 ELSE 0
                /\ Range(availableVoices'[o]) \subseteq Range(availableVoices[o])
          /\ \A v \in Voices :
                voiceEnv'[v] = IF \E o \in Layers : v \in Taken(o)
                               THEN "attack" ELSE voiceEnv[v]
          /\ MapHas(activeVoices', lastCall'.note) <=> Eligible /= {}
          /\ Eligible /= {} =>
                /\ Range(MapGet(activeVoices', lastCall'.note))
                      = UNION {Taken(o) : o \in Layers}
                /\ Len(MapGet(activeVoices', lastCall'.note)) = Cardinality(Eligible)
          /\ OtherEntries(activeVoices', lastCall'.note) = activeVoices]_vars

\* a noteOn got a voice from one layer while another layer that sounds had
\* none left and a third had no wavetable
C12_Witness ==
  /\ lastCall.op = "noteOn"
  /\ lastCall.outcome = "triggered"
  /\ Len(lastCall.voices) = 1
  /\ MapHas(activeVoices, lastCall.note)
  /\ MapGet(activeVoices, lastCall.note) = lastCall.voices
  /\ \E o \in Layers :
        /\ LayerSounds(o)
        /\ AllocatedCount(activeVoices, o) = MAX_VOICES
        /\ \A v \in Range(lastCall.voices) : v \notin synths(o)
  /\ \E o \in Layers : oscWavetable[o] = Null

\* the master gain the current wavetables, levels and volume give: the
\* volume over the square root of the number of layers with a wavetable and
\* a level above 0, in dB, within [-60 dB, 0 dB]
ExpectedMasterGain ==
  LET n == Cardinality({o \in Layers : oscWavetable[o] /= Null /\ oscLevel[o] > 0})
  IN IF userVolume = 0 THEN -6000
     ELSE Clamp(-6000, 0, DbOverSqrt(userVolume, IF n = 0 THEN 1 ELSE n))

\* C13: after every call that changes a wavetable, a level or the volume,
\* the master gain is the one the current wavetables, levels and volume give
C13_MasterGainNeverStale ==
  [][(<<oscWavetable, oscLevel, userVolume>>' /= <<oscWavetable, oscLevel, userVolume>>)
       => masterVolume' = ExpectedMasterGain']_vars

C23_TriggersAheadOfClock ==
  [][\A v \in Voices :
        (voiceEnv'[v] /= voiceEnv[v] \/ voiceTimes'[v] /= voiceTimes[v])
          => /\ voiceEnv'[v] = "attack"
                  => /\ voiceTimes'[v].attack = now + AUDIO_LOOKAHEAD
                     /\ voiceTimes'[v].attack > now
                     /\ voiceTimes'[v].release = NoTime
             /\ voiceEnv'[v] = "release"
                  => /\ voiceTimes'[v].release = now + AUDIO_LOOKAHEAD
                     /\ voiceTimes'[v].release > now
                     /\ voiceTimes'[v].attack = voiceTimes[v].attack
                     /\ voiceTimes'[v].attack /= NoTime
                     /\ voiceTimes'[v].release >= voiceTimes'[v].attack]_vars

\* a voice was released by a call made at the audio time of the call that
\* had attacked it, and another one some time after its attack
C23_Witness ==
  /\ lastCall.op \in {"noteOff", "allNotesOff"}
  /\ \E v \in Voices :
        /\ voiceEnv[v] = "release"
        /\ voiceTimes[v].release = voiceTimes[v].attack
        /\ voiceTimes[v].attack > AUDIO_LOOKAHEAD
  /\ \E v \in Voices :
        /\ voiceEnv[v] = "release"
        /\ voiceTimes[v].release > voiceTimes[v].attack

(***************************************************************************)
(* Notes held by several inputs                                            *)
(***************************************************************************)
\* the inputs that hold the note down
HeldBy(note) ==
  {src \in {"keyboard", "midi", "piano"} :
     \/ src = "keyboard" /\ \E i \in 1..Len(pressedKeys) : keyMap[pressedKeys[i]] = note
     \/ src = "midi" /\ note \in midiHeld
     \/ src = "piano" /\ note \in Range(activeNotes)}

\* C8: an input event whose handler calls noteOn for a note that is already
\* sounding changes nothing in the engine: no voice leaves a pool, no attack
\* is triggered, the voices recorded for the note stay as they are
C8_RepeatedNoteOnIsNoOp ==
  [][(lastInput' /= lastInput /\ lastInput'.call = "noteOn"
        /\ MapHas(activeVoices, lastInput'.note))
       => UNCHANGED synthVars]_vars

\* a handler called noteOn for a note that another input had already made
\* sound, and the note is still sounding on its one voice
C8_Witness ==
  /\ lastInput.call = "noteOn"
  /\ lastInput.wasSounding
  /\ Cardinality(HeldBy(lastInput.note)) >= 2
  /\ MapHas(activeVoices, lastInput.note)
  /\ Len(MapGet(activeVoices, lastInput.note)) = 1
  /\ Len(availableVoices[0]) = MAX_VOICES - 1

\* C9 as stated: when several inputs hold a sounding note and one of them
\* releases it, the voices of the note are not released while another input
\* still holds it
C9_HeldNoteKeepsSounding ==
  [][\A note \in PianoNotes :
       (lastInput' /= lastInput /\ lastInput'.call = "noteOff"
          /\ lastInput'.note = note
          /\ MapHas(activeVoices, note)
          /\ Cardinality(HeldBy(note)) >= 2
          /\ HeldBy(note)' /= {})
         => MapHas(activeVoices', note)]_vars

\* C21: an input event whose handler calls noteOn while the engine has not
\* been started, start() pending or not, changes nothing in the engine: no
\* voice leaves a pool, no attack is triggered, no note is recorded, and the
\* handler runs to its end
C21_NoteOnBeforeStartIsNoOp ==
  [][(lastInput' /= lastInput /\ lastInput'.call = "noteOn" /\ ~isInitialized)
       => /\ UNCHANGED synthVars
          /\ ~MapHas(activeVoices', lastInput'.note)]_vars

\* a key called noteOn while start() was pending, on an engine whose first
\* layer has a wavetable and all its voices available
C21_Witness ==
  /\ lastInput.call = "noteOn"
  /\ ~isInitialized
  /\ startPending
  /\ pressedKeys /= <<>>
  /\ keyMap[pressedKeys[Len(pressedKeys)]] = lastInput.note
  /\ LayerSounds(0)
  /\ Len(availableVoices[0]) = MAX_VOICES
  /\ activeVoices = <<>>

(***************************************************************************)
(* Order and topology of the effects chain                                 *)
(***************************************************************************)
\* the list holds each of the 15 effect ids exactly once
IsPermutation(list) ==
  /\ Len(list) = Cardinality(EffectIds)
  /\ \A id \in EffectIds : Cardinality({i \in 1..Len(list) : list[i] = id}) = 1

\* C4: a reorder with a list that is no permutation of the 15 ids leaves the
\* order, the live graph, the persisted order and the enabled flags as they
\* were and does not invoke the order-change callback
C4_MalformedReorderRejected ==
  [][(lastFx'.op = "reorder" /\ ~IsPermutation(lastFx'.arg))
       => /\ UNCHANGED <<order, graph, localStorage, effectEnabled>>
          /\ lastFx'.orderCalls = <<>>]_vars

\* a list of the right length with an id twice was passed to a chain whose
\* order had been changed and persisted, and which has a unit enabled
C4_Witness ==
  /\ lastFx.op = "reorder"
  /\ Len(lastFx.arg) = Len(DEFAULT_ORDER)
  /\ ~IsPermutation(lastFx.arg)
  /\ order /= DEFAULT_ORDER
  /\ localStorage = Stringify(order)
  /\ \E id \in EffectIds : effectEnabled[id]

\* C5: the order always holds each of the 15 effect ids exactly once
C5_OrderIsPermutation == IsPermutation(order)

\* the page loaded with a stored list that is no permutation, and the order
\* has since been changed by a reorder that could not be persisted
C5_Witness ==
  /\ localStorage.kind = "text"
  /\ JSONparse(localStorage.text).type = "array"
  /\ ~IsPermutation(JSONparse(localStorage.text).items)
  /\ lastFx.op = "reorder"
  /\ lastFx.orderCalls /= <<>>
  /\ order /= DEFAULT_ORDER

\* the enabled units in the sequence the order gives
EnabledInOrder == SeqFilterIn(order, {id \in EffectIds : effectEnabled[id]})

\* the connections of input -> enabled units in order -> output, and those of
\* the engine around the chain
ExpectedGraph ==
  LET path == <<"input">> \o EnabledInOrder \o <<"output">>
  IN {<<path[i], path[i + 1]>> : i \in 1..(Len(path) - 1)}
     \cup {<<"masterVolume", "input">>, <<"output", "destination">>}

\* C6: after every completed operation the live graph is exactly
\* input -> the enabled units in the sequence of the order -> output
C6_GraphIsEnabledPath == graph = ExpectedGraph

\* two units are enabled and sit in the order the other way round than in the
\* default order, after a parameter call
C6_Witness ==
  /\ lastFx.op = "setEffect"
  /\ Len(EnabledInOrder) = 2
  /\ EnabledInOrder /= SeqFilterIn(DEFAULT_ORDER, Range(EnabledInOrder))
  /\ <<"input", "output">> \notin graph

\* the complete path through the chain for the current order and flags
ExpectedPath == <<"input">> \o EnabledInOrder \o <<"output", "destination">>

\* a handler that has made all its calls leaves the graph the whole
\* rewireChain gives
HandlerDoneGraph == rewireQueue = <<>> => graph = ExpectedGraph

\* C7 as stated: a render quantum interleaved with a setEnabled or a reorder
\* goes through the complete path of the state before the mutation or through
\* the complete path of the state after it
C7_RenderSeesCompletePath ==
  [][rendered' /= rendered
       => \/ rendered' = pathBefore
          \/ rendered' = ExpectedPath]_vars

(***************************************************************************)
(* Persistence of the order                                                *)
(***************************************************************************)
\* C18: right after construction the order is a permutation of the 15 ids, it
\* differs from the default order only if the storage holds exactly the JSON
\* text of that order, and the chain is wired (input to output, no unit being
\* enabled); so every other stored value and a failing storage give the
\* default order
C18_StoredOrderValidated ==
  lastFx.op \in {"none", "construct"} =>
     /\ IsPermutation(order)
     /\ order /= DEFAULT_ORDER => localStorage = Stringify(order)
     /\ (localStorage.kind = "text" /\ localStorage.text /= <<>>
           /\ JSONparse(localStorage.text).type = "array"
           /\ IsPermutation(JSONparse(localStorage.text).items))
          => order = JSONparse(localStorage.text).items
     /\ graph = ExpectedGraph
     /\ <<"input", "output">> \in graph

\* the chain was constructed again with a stored array of the right length
\* that is no permutation, and started with the default order
C18_Witness ==
  /\ lastFx.op = "construct"
  /\ localStorage.kind = "text"
  /\ JSONparse(localStorage.text).type = "array"
  /\ Len(JSONparse(localStorage.text).items) = Len(DEFAULT_ORDER)
  /\ ~IsPermutation(JSONparse(localStorage.text).items)
  /\ order = DEFAULT_ORDER

\* C19: a reorder with a permutation becomes the order and the live graph
\* follows it; if the store worked, the storage holds the JSON text of the
\* order, from which loadOrder gives the order back; if the store failed, the
\* storage is as before. A chain constructed right after a reorder that was
\* stored starts with the order of that reorder
C19_ReorderPersists ==
  [][/\ (lastFx'.op = "reorder" /\ IsPermutation(lastFx'.arg))
          => /\ order' = lastFx'.arg
             /\ graph' = ExpectedGraph'
             /\ lastFx'.orderCalls = <<order'>>
             /\ lastFx'.saved => /\ localStorage' = Stringify(order')
                                 /\ loadOrder(localStorage') = lastFx'.arg
             /\ ~lastFx'.saved => localStorage' = localStorage
     /\ (lastFx'.op = "construct" /\ lastFx.op = "reorder" /\ lastFx.saved)
          => order' = lastFx.arg]_vars

\* a reorder to an order other than the default one was stored, with a unit
\* enabled
C19_Witness ==
  /\ lastFx.op = "reorder"
  /\ lastFx.saved
  /\ IsPermutation(lastFx.arg)
  /\ order /= DEFAULT_ORDER
  /\ \E id \in EffectIds : effectEnabled[id]

(***************************************************************************)
(* Parameters of the effects                                               *)
(***************************************************************************)
\* C14: after reset() every unit is disabled and every parameter of every
\* unit, the wet value included, has its factory default, whatever the units
\* were and held before the call (as the wet default both the value reset()
\* passes and the value the nodes are constructed with are taken)
C14_ResetRestoresDefaults ==
  lastFx.op = "reset" =>
     /\ \A id \in EffectIds : ~effectEnabled[id]
     /\ effectParams = FactoryParams
     /\ \/ effectWet = DefaultWet
        \/ effectWet = [id \in WetIds |-> 0]

\* C15: a setEnabled call, whether it disables a unit or enables it again,
\* changes no parameter of any unit, leaves the order as it is and changes
\* the enabled flag of no other unit, so that a unit that is disabled and
\* enabled again has the parameters it had before it was disabled
C15_ToggleKeepsParameters ==
  [][lastFx'.op = "setEnabled"
       => /\ effectParams' = effectParams
          /\ effectWet' = effectWet
          /\ order' = order
          /\ \A id \in EffectIds :
                effectEnabled'[id] /= effectEnabled[id] => lastFx'.arg = <<id>>]_vars

\* a unit whose wet value was set while it was enabled has been disabled and
\* is enabled again by a setEnabled call, with that wet value, in an order
\* that is not the default one and next to another enabled unit
C15_Witness ==
  /\ lastFx.op = "setEnabled"
  /\ lastFx.changeCalls = 1
  /\ order /= DEFAULT_ORDER
  /\ \E id \in WetIds :
        /\ lastFx.arg = <<id>>
        /\ effectEnabled[id]
        /\ effectWet[id] = 80
        /\ \E other \in EffectIds \ {id} : effectEnabled[other]

\* C16: after randomize() between 3 and 5 units are enabled and every ranged
\* parameter of every enabled unit is inside its range of RANDOM_RANGES
C16_RandomizeEnablesThreeToFive ==
  lastFx.op = "randomize" =>
     /\ Cardinality({id \in EffectIds : effectEnabled[id]}) \in 3..5
     /\ \A id \in EffectIds :
           effectEnabled[id] => WithinRanges(effectWet, effectParams, id)

\* randomize() found a unit enabled with a parameter outside its range and
\* left it enabled, and five units are enabled now
C16_Witness ==
  /\ lastFx.op = "randomize"
  /\ Cardinality({id \in EffectIds : effectEnabled[id]}) = 5
  /\ \E id \in lastFx.before.enabled \cap lastFx.before.offRange : effectEnabled[id]

\* C17: after randomize() every ranged parameter of all 15 units, those left
\* disabled included, is inside its range of RANDOM_RANGES
C17_RandomizeDrawsEveryUnit ==
  lastFx.op = "randomize" =>
     \A id \in EffectIds : WithinRanges(effectWet, effectParams, id)

\* C20: two runs of randomize() from the same state of the chain with the
\* same arguments end with the same units enabled and the same parameters
C20_RandomizeDeterministic ==
  lastFx.op = "randomize" => lastFx.first = lastFx.second

(***************************************************************************)
(* From the readings of a day to the partials                              *)
(***************************************************************************)
\* the series has at least one value and all its values are equal
IsFlat(values) == values /= <<>> /\ \A i \in 1..Len(values) : values[i] = values[1]

\* C24: for a series of equal values, of any length from 1 on, normalize
\* gives as many zeros, the generated wavetable is all zero, the transform
\* does not throw, and the partials computed from the wavetable are numbers,
\* the first of them 0
C24_FlatSeriesGivesSilence ==
  IsFlat(lastWave.values) =>
     /\ lastWave.op = "normalize" => lastWave.out = Zeros(Len(lastWave.values))
     /\ lastWave.op = "generate" =>
           /\ lastWave.out = Zeros(TableSize)
           /\ ~lastWave.threw
           /\ Len(lastWave.partials) = LoadPartials
           /\ lastWave.partials[1] = 0
           /\ \A k \in 1..LoadPartials :
                 lastWave.partials[k] /= NaN /\ lastWave.magnitudes[k] /= NaN

\* a wavetable was generated from a flat series that is longer than the
\* wavetable, and its partials were computed
C24_Witness ==
  /\ lastWave.op = "generate"
  /\ IsFlat(lastWave.values)
  /\ Len(lastWave.values) > TableSize
  /\ twiddleSize = TableSize
  /\ LoadPartials >= 1

\* C25: for a series that is not flat, normalize gives as many values as it
\* got, all between -1 and 1, -1 wherever the series has its minimum and 1
\* wherever it has its maximum, and in the order of the values of the series
C25_NormalizeUsesOwnRange ==
  (lastWave.op = "normalize" /\ lastWave.values /= <<>> /\ ~IsFlat(lastWave.values)) =>
     LET values == lastWave.values
         out == lastWave.out
     IN /\ Len(out) = Len(values)
        /\ \A i \in 1..Len(values) :
              /\ out[i] >= -ONE
              /\ out[i] <= ONE
              /\ values[i] = MathMin(values) => out[i] = -ONE
              /\ values[i] = MathMax(values) => out[i] = ONE
        /\ \A i, j \in 1..Len(values) : values[i] <= values[j] => out[i] <= out[j]

\* a series that has its maximum twice, away from the fixed range 40..400,
\* and values between its minimum and its maximum was normalized
C25_Witness ==
  /\ lastWave.op = "normalize"
  /\ ~IsFlat(lastWave.values)
  /\ MathMin(lastWave.values) > 40
  /\ Cardinality({i \in 1..Len(lastWave.values) :
                    lastWave.values[i] = MathMax(lastWave.values)}) >= 2
  /\ \E i \in 1..Len(lastWave.out) : lastWave.out[i] \notin {-ONE, ONE}

\* the array has a sample that is not zero
NonSilent(wavetable) == \E i \in 1..Len(wavetable) : wavetable[i] /= 0

\* C26: for a wavetable whose length is a power of two and any number of
\* partials asked for, computePartials returns that many entries, each a
\* number that is not negative, the first one 1 if the wavetable is not silent
C26_PartialsWellFormed ==
  (lastWave.op = "computePartials" /\ Len(lastWave.values) >= 1
     /\ IsPowerOfTwoOrZero(Len(lastWave.values))) =>
     /\ ~lastWave.threw
     /\ Len(lastWave.partials) = lastWave.size
     /\ \A k \in 1..Len(lastWave.partials) :
           lastWave.partials[k] /= NaN /\ lastWave.partials[k] >= 0
     /\ (NonSilent(lastWave.values) /\ lastWave.size >= 1) => lastWave.partials[1] = ONE

\* C27: for a wavetable whose length is no power of two (0, 3, 6, ...)
\* computePartials throws and returns no partials
C27_NonPowerOfTwoFailsFast ==
  (lastWave.op = "computePartials" /\ Len(lastWave.values) \notin {1, 2, 4, 8, 16}) =>
     /\ lastWave.threw
     /\ lastWave.partials = <<>>

\* cos and sin of 2 pi k / 16 for k = 0..15
Cos(k) == IF k < 8 THEN Cos16[k + 1] ELSE -Cos16[k - 7]

Sin(k) == IF k < 8 THEN Sin16[k + 1] ELSE -Sin16[k - 7]

\* bin k of the discrete Fourier transform of x by its definition: the sum of
\* x[n] * (cos(2 pi n k / N) - i sin(2 pi n k / N)) over n = 0..N-1
DftReal(x, k) ==
  LET N == Len(x)
  IN RoundDiv(SumOver([n \in 0..(N - 1) |-> x[n + 1] * Cos(((n * k) % N) * (16 \div N))],
                      0..(N - 1)), ONE)

DftImag(x, k) ==
  LET N == Len(x)
  IN RoundDiv(SumOver([n \in 0..(N - 1) |-> -x[n + 1] * Sin(((n * k) % N) * (16 \div N))],
                      0..(N - 1)), ONE)

\* the magnitude of bin k of that transform, scaled by 2 / N
DftMagnitude(x, k) == Magnitude(DftReal(x, k), DftImag(x, k), Len(x))

\* the distance up to which two magnitudes count as equal, in units of 1/ONE
Tolerance == ONE \div 512

\* C28: for an input whose length is a power of two, the magnitudes of the
\* harmonics 1..harmonicCount that the FFT computes are those of the bins
\* 1..harmonicCount of the transform by its definition, as far as the
\* transform has such bins (k < N), whatever was transformed before
C28_FftMatchesDft ==
  (lastWave.op = "computePartials" /\ Len(lastWave.values) \in {1, 2, 4, 8}) =>
     /\ ~lastWave.threw
     /\ Len(lastWave.magnitudes) = lastWave.size
     /\ \A k \in 1..lastWave.size :
           k < Len(lastWave.values) =>
              LET d == lastWave.magnitudes[k] - DftMagnitude(lastWave.values, k)
              IN lastWave.magnitudes[k] /= NaN /\ d <= Tolerance /\ -d <= Tolerance

\* the harmonics of an input of 8 samples were computed, and the first three
\* of them are there with three different magnitudes
C28_Witness ==
  /\ lastWave.op = "computePartials"
  /\ Len(lastWave.values) = 8
  /\ lastWave.size = 8
  /\ lastWave.magnitudes[1] > 0
  /\ lastWave.magnitudes[2] > 0
  /\ lastWave.magnitudes[3] > 0
  /\ Cardinality({lastWave.magnitudes[k] : k \in 1..3}) = 3

\* the values never fall from one to the next
NonDecreasing(x) == \A i \in 1..(Len(x) - 1) : x[i] <= x[i + 1]

\* C29: resample(x, N) returns N samples; for an x that is not empty and
\* never falls, the samples never fall, each lies between the first and the
\* last value of x, and no index of x after its last one is read
C29_ResampleKeepsMonotone ==
  lastWave.op = "resample" =>
     /\ Len(lastWave.out) = lastWave.size
     /\ (lastWave.values /= <<>> /\ NonDecreasing(lastWave.values)) =>
           /\ NonDecreasing(lastWave.out)
           /\ \A k \in 1..Len(lastWave.out) :
                 /\ lastWave.out[k] >= lastWave.values[1]
                 /\ lastWave.out[k] <= lastWave.values[Len(lastWave.values)]
           /\ \A idx \in lastWave.reads : idx >= 0 /\ idx < Len(lastWave.values)

\* a rising array shorter than the target was resampled: its last sample was
\* read as the upper neighbour, and values between two of its samples came out
C29_Witness ==
  /\ lastWave.op = "resample"
  /\ lastWave.values /= <<>>
  /\ NonDecreasing(lastWave.values)
  /\ Len(lastWave.values) < lastWave.size
  /\ lastWave.values[1] < lastWave.values[Len(lastWave.values)]
  /\ (Len(lastWave.values) - 1) \in lastWave.reads
  /\ \E k \in 1..Len(lastWave.out) : lastWave.out[k] \notin Range(lastWave.values)

(***************************************************************************)
(* The knobs and the animation frames                                      *)
(***************************************************************************)
\* the commits of a panel among the commits of a frame
CommitsOf(c, commits) == SelectSeq(commits, LAMBDA commit : commit.panel = c)

C31_OneNoteOnPerPress ==
  [][(lastKey' /= lastKey /\ lastKey'.code \in {"KeyQ", "Digit2"}) =>
        /\ (lastKey'.type = "down" /\ ~lastKey'.repeat) =>
              /\ lastInput'.call = "noteOn"
              /\ lastInput'.note = NoteOfCode(lastKey'.code)
        /\ (lastKey'.type = "down" /\ lastKey'.repeat) => lastInput'.call = "none"
        /\ lastKey'.type = "up" =>
              /\ lastInput'.call = "noteOff"
              /\ lastInput'.note = NoteOfCode(lastKey'.code)]_vars

(***************************************************************************)
(* The voice pools when nothing sounds                                     *)
(***************************************************************************)
\* every layer has all its voices in its available set
AllVoicesAvailable ==
  \A o \in Layers :
     /\ Len(availableVoices[o]) = MAX_VOICES
     /\ Range(availableVoices[o]) = synths(o)

\* C32: after allNotesOff no note is recorded as sounding, and whenever no
\* note is recorded as sounding, as after a noteOff for each sounding note,
\* every layer has all its V voices in its available set
C32_NoVoiceLeaked ==
  /\ [](activeVoices = <<>> => AllVoicesAvailable)
  /\ [][(lastCall' /= lastCall /\ lastCall'.op = "allNotesOff") =>
           (activeVoices' = <<>> /\ AllVoicesAvailable')]_vars

\* the last of two sounding notes was released by a noteOff: nothing sounds,
\* the voices of both notes are in their release and all voices are available
C32_Witness ==
  /\ lastCall.op = "noteOff"
  /\ lastCall.outcome = "released"
  /\ lastCall.voices /= <<>>
  /\ activeVoices = <<>>
  /\ AllVoicesAvailable
  /\ \E v \in Voices : voiceEnv[v] = "release" /\ v \notin Range(lastCall.voices)

(***************************************************************************)
(* The order in which the voices of a layer are taken                      *)
(***************************************************************************)
\* the position of a voice in the iteration order of an available set
PositionIn(pool, v) == CHOOSE i \in 1..Len(pool) : pool[i] = v

\* C33: the available set of a layer starts in the order of creation of its
\* voices; a voice that enters it comes after all that are in it, the voices
\* that stay keep their order, and a noteOn takes from a layer the voice that
\* is first in that order, which has been available the longest
C33_VoicesTakenFirstInFirstOut ==
  /\ [](~isInitialized /\ ~startPending =>
          \A o \in Layers :
             availableVoices[o] = [i \in 1..MAX_VOICES |-> <<o, i - 1>>])
  /\ [][\A o \in Layers :
          LET old == availableVoices[o]
              new == availableVoices'[o]
          IN /\ \A v, w \in Range(old) \cap Range(new) :
                   PositionIn(old, v) < PositionIn(old, w)
                     => PositionIn(new, v) < PositionIn(new, w)
             /\ \A v \in Range(old) \cap Range(new), w \in Range(new) \ Range(old) :
                   PositionIn(new, v) < PositionIn(new, w)
             /\ (lastCall' /= lastCall /\ lastCall'.op = "noteOn") =>
                   \A v \in Range(old) \ Range(new) :
                      /\ v = old[1]
                      /\ v \in Range(lastCall'.voices)
                      /\ Range(old) \ Range(new) = {v}]_vars

\* two voices of the first layer were released, the four voices that had been
\* available before them were taken first, and now the one of the two that
\* was released first has been taken again, while the other is still available
C33_Witness ==
  /\ lastCall.op = "noteOn"
  /\ lastCall.outcome = "triggered"
  /\ lastCall.voices = << <<0, 0>> >>
  /\ availableVoices[0] = << <<0, 1>> >>
  /\ voiceEnv[<<0, 1>>] = "release"
  /\ \A i \in 2..(MAX_VOICES - 1) : voiceEnv[<<0, i>>] = "attack"

(***************************************************************************)
(* Reading back what a setter was given                                    *)
(***************************************************************************)
\* C34: after a setter of a unit was called with a parameter object,
\* getEffectParams of the unit has the value given for each field of the
\* object, wet and enabled included, whether the unit was enabled or not
C34_SetterRoundTrips ==
  lastFx.op = "set" =>
     LET effectId == lastFx.arg[1]
         params == lastFx.arg[2]
         got == getEffectParams(Chain, effectId)
     IN /\ (params.hasWet /\ effectId \in WetIds) => got.wet = params.wet
        /\ params.hasEnabled => got.enabled = params.enabled
        /\ \A n \in DOMAIN params.values : got.values[n] = params.values[n]

\* C35: when a knob drag ends, the engine holds the value the knob displays:
\* once no knob is dragged and the animation frame that was asked for has
\* run, the parameter of every knob has the value that the last mousemove
\* wrote to the knob
C35_DragEndCommitsDisplayedValue ==
  (Dragging = {} /\ frameCallbacks = <<>>) =>
     \A k \in KnobIds : committed[k] = knobValue[k]

\* C36: a drop in the effects rack places the dragged unit at the indicated
\* insertion position: after a drop the enabled units are those of before
\* with the dragged unit taken out and put in at the drop index, which counts
\* the modules that are not dragged; and the order passed to reorder is one
\* that reorder accepts
C36_DropPlacesAtIndicatedPosition ==
  lastFx.op = "drop" =>
     LET before == lastFx.arg[1]
         dragged == lastFx.arg[2]
         dropIndex == lastFx.arg[3]
         newOrder == lastFx.arg[4]
     IN /\ reorderAccepts(newOrder)
        /\ getEnabledEffects(Chain) = splice(without(before, dragged), dropIndex, dragged)

\* the handler listens to the selected device and to no other
ListensToSelectedOnly ==
  /\ activeInput /= NoDevice => activeInput = selectedDeviceId
  /\ onmidimessage \subseteq {activeInput} \ {NoDevice}

C38_NoteNameIsJoinKey ==
  /\ noteOnMsg.number = 60 => noteOnMsg.name = "C4"
  /\ (noteOnMsg /= NoMessage /\ noteOffMsg /= NoMessage) =>
        (noteOffMsg.name = noteOnMsg.name <=> noteOffMsg.number = noteOnMsg.number)

\* the note-off of the C an octave above the C4 of the note-on
C38_Witness ==
  /\ noteOnMsg = [number |-> 60, name |-> "C4"]
  /\ noteOffMsg = [number |-> 72, name |-> "C5"]

====
